---- MODULE Spec2Model ----
(***************************************************************************)
(* Knowledge-base tools of atlas_gtm_mcp/qdrant: the brain lifecycle       *)
(* (create_brain, update_brain_status, delete_brain), content seeding      *)
(* (_seed_items_to_collection behind the four seed_* tools), add_insight    *)
(* with its quality gate, and the brain-scoped read tools.                 *)
(*                                                                         *)
(* The vector store is a map from point id to point per collection: a     *)
(* content point is [vector, payload], with the embedded text standing    *)
(* for the vector; a point of the brains collection is its payload (no    *)
(* search reads the vector of a brain).                                    *)
(* A point id is sha256(composite key) cut to 128 bits; the model keeps   *)
(* the composite key itself, i.e. it takes the hash to be collision free. *)
(* created_at / updated_at stamps are not modelled: no decision reads     *)
(* them.  A backend call (vector store or embedding provider) may raise;  *)
(* every handler takes the place of the failure as a nondeterministic     *)
(* input.                                                                  *)
(***************************************************************************)
EXTENDS Integers, Sequences, FiniteSets, TLC

VARIABLES brains, kb, clock, last, calls

vars == <<brains, kb, clock, last, calls>>

(***************************************************************************)
(* Bounds of the model.                                                    *)
(***************************************************************************)
\* The clock (milliseconds) runs from 1 to MaxClock.
MaxClock == 2
\* Content rows over all collections.
MaxRows == 2
\* The ids carry timestamps from 1 to MaxStamp.
MaxStamp == 3

(***************************************************************************)
(* Universes of the tool arguments.                                        *)
(***************************************************************************)
Verticals == {"fin", "def"}
\* A vertical the regex of create_brain rejects (upper case).
BadVertical == "Fin"
Names == {"Alpha"}
\* A name shorter than 3 characters.
ShortName == "ab"

BrainStatus == {"active", "draft", "archived"}
\* A status string that is no BrainStatus value.
BogusStatus == "paused"

\* (variant: an archived brain can be sent back to draft)
VALID_TRANSITIONS_redraft ==
    [draft |-> {"active"}, active |-> {"archived"}, archived |-> {"active", "draft"}]

\* (variant: archived is terminal)
VALID_TRANSITIONS_terminal ==
    [draft |-> {"active"}, active |-> {"archived"}, archived |-> {}]

VALID_TRANSITIONS ==
    [s \in BrainStatus |->
        CASE s = "draft" -> {"active"}
          [] s = "active" -> {"archived"}
          [] s = "archived" -> {"active"}]

\* (variant: every transition is let through)
validate_status_transition_any(current, new) == new \in BrainStatus

validate_status_transition(current, new) == new \in VALID_TRANSITIONS[current]

generate_brain_id(vertical, timestamp_ms) ==
    "brain_" \o vertical \o "_" \o ToString(timestamp_ms)

\* The ids BRAIN_ID_PATTERN accepts, within the universe.
WellFormedIds == {generate_brain_id(v, t) : v \in Verticals, t \in 1..MaxStamp}
\* An id BRAIN_ID_PATTERN rejects.
MalformedId == "Brain-fin"
NoId == "null"

\* (variant: every id is let through)
validate_brain_id_any(value) == TRUE

validate_brain_id(value) == value \in WellFormedIds

generate_point_id(brain_id, key_field) == brain_id \o ":" \o key_field

Collections ==
    {"icp_rules", "response_templates", "objection_handlers", "market_research", "insights"}

(***************************************************************************)
(* The vector store.                                                       *)
(***************************************************************************)
EmptyCollection == [p \in {} |-> 0]

Upsert(coll, pid, payload) ==
    [p \in DOMAIN coll \cup {pid} |-> IF p = pid THEN payload ELSE coll[p]]

DeletePoints(coll, pids) == [p \in DOMAIN coll \ pids |-> coll[p]]

\* scroll / query_points return at most `limit` of the matching points.
Limited(pids, limit) ==
    IF Cardinality(pids) <= limit
    THEN {pids}
    ELSE {S \in SUBSET pids : Cardinality(S) = limit}

\* Filter(must=[FieldCondition(key="id", match=brain_id)]), limit=1
BrainPoints(store, brain_id) == {p \in DOMAIN store : store[p].id = brain_id}

\* Filter(must=[vertical = v, status = "active"])
\* (variant: the condition on the vertical is left out of the filter)
ActivePoints_any_vertical(store, vertical) ==
    {p \in DOMAIN store : store[p].status = "active"}

\* Filter(must=[vertical, status = "active"])
ActivePoints(store, vertical) ==
    {p \in DOMAIN store : store[p].vertical = vertical /\ store[p].status = "active"}

\* (variant: the condition on brain_id is left out of the filter)
BrainFilter_none(payload, brain_id) == TRUE

\* Filter(must=[FieldCondition(key="brain_id", match=brain_id)])
BrainFilter(payload, brain_id) == payload.brain_id = brain_id

RowsOf(coll, brain_id) == {p \in DOMAIN coll : BrainFilter(coll[p].payload, brain_id)}

TotalRows(c) ==
    LET RECURSIVE Sum(_)
        Sum(S) == IF S = {} THEN 0
                  ELSE LET x == CHOOSE y \in S : TRUE
                       IN Cardinality(DOMAIN c[x]) + Sum(S \ {x})
    IN Sum(Collections)

(***************************************************************************)
(* The record of the last tool call: its arguments and what it returned.   *)
(* network: the call reached a call of the vector store or of the          *)
(* embedding provider.                                                     *)
(***************************************************************************)
NoCall ==
    [op |-> "none", brain_id |-> NoId, outcome |-> "none",
     status |-> "none", previous_status |-> "none", deactivated_brain_id |-> NoId,
     confirm |-> FALSE, deleted_content |-> [c \in Collections |-> 0],
     tool |-> "none", items |-> <<>>, seeded_count |-> 0, errors |-> <<>>,
     category |-> "none", query |-> "None", limit |-> 0, hits |-> {}, stats |-> [c \in Collections |-> 0],
     insight_status |-> "none", insight_id |-> NoId, existing_id |-> NoId,
     confidence |-> 0, needs_validation |-> FALSE, duplicate_checked |-> FALSE,
     importance |-> "none", network |-> FALSE, attempts |-> 0, responses |-> <<>>,
     source |-> [type |-> "", id |-> "", company_name |-> "", extracted_quote |-> ""]]

Call(r) == [f \in DOMAIN NoCall |-> IF f \in DOMAIN r THEN r[f] ELSE NoCall[f]]

\* The server instances that share the vector store, and the position of
\* each in an update_brain_status call it runs step by step: its arguments,
\* the brain payload it read, the points its scan returned, those its loop
\* has visited, and its result.
Procs == {1, 2}

\* The locals of a call.  peers is history, not a local: the calls that had
\* written nothing when this call scanned.
IdleCall ==
    [pc |-> "idle", brain_id |-> NoId, status |-> "none", brain_data |-> <<>>,
     results |-> {}, visited |-> {}, deactivated_brain_id |-> NoId,
     outcome |-> "none", previous_status |-> "none", peers |-> {}]

Init ==
    /\ calls = [p \in Procs |-> IdleCall]
    /\ brains = EmptyCollection
    /\ kb = [c \in Collections |-> EmptyCollection]
    /\ clock = 1
    /\ last = NoCall

\* Time passes between two calls.
Tick ==
    /\ clock < MaxClock
    /\ clock' = clock + 1
    /\ UNCHANGED <<brains, kb, last, calls>>

(***************************************************************************)
(* create_brain                                                            *)
(***************************************************************************)
CreateFaults == {"none", "backend"}

CreateBrain(vertical, name, fault) ==
    LET brain_id == generate_brain_id(vertical, clock)
        payload == [id |-> brain_id, name |-> name, vertical |-> vertical,
                    status |-> "draft"]
        outcome == IF vertical = BadVertical \/ name = ShortName THEN "invalid_input"
                   ELSE IF fault = "backend" THEN "backend_error"
                   ELSE "ok"
    IN /\ brains' = IF outcome = "ok"
                    THEN Upsert(brains, generate_point_id(brain_id, brain_id), payload)
                    ELSE brains
       /\ last' = Call([op |-> "create_brain", outcome |-> outcome,
                        brain_id |-> IF outcome = "ok" THEN brain_id ELSE NoId,
                        status |-> IF outcome = "ok" THEN "draft" ELSE "none"])
       /\ UNCHANGED <<kb, clock>>

(***************************************************************************)
(* update_brain_status                                                     *)
(***************************************************************************)
\* limit of the scan for the active brains of the vertical
ScanLimit == 10

\* Where a backend call of update_brain_status raises: the read of the target,
\* the scan for active brains, the embed or upsert of a brain being archived,
\* the embed or upsert of the target.
UpdateFaults == {"none", "read", "scan", "archive", "target"}

\* (variant: the loop archives nothing)
ArchiveOthers_skipped(store, scanned, ids) == store

\* The loop over the scanned points: each brain of `ids` is written back as
\* archived at generate_point_id(id, id), with the payload the scan returned.
ArchiveOthers(store, scanned, ids) ==
    LET pidOf(i) == generate_point_id(i, i)
        scannedPayload(i) == store[CHOOSE q \in scanned : store[q].id = i]
    IN [p \in DOMAIN store \cup {pidOf(i) : i \in ids} |->
          IF \E i \in ids : p = pidOf(i)
          THEN [scannedPayload(CHOOSE i \in ids : p = pidOf(i)) EXCEPT !.status = "archived"]
          ELSE store[p]]

\* (variant: the target is written back with the status it had)
WriteTarget_stale(store, brain_id, brain_data, new_status) ==
    Upsert(store, generate_point_id(brain_id, brain_id), brain_data)

\* The write of the target: the payload read at the start with the new status.
WriteTarget(store, brain_id, brain_data, new_status) ==
    Upsert(store, generate_point_id(brain_id, brain_id),
           [brain_data EXCEPT !.status = new_status])

UpdateFailed(brain_id, status, outcome) ==
    /\ brains' = brains
    /\ last' = Call([op |-> "update_brain_status", brain_id |-> brain_id,
                     status |-> status, outcome |-> outcome,
                     \* the raises of the validation come before the scroll
                     network |-> outcome # "invalid_input"])

UpdateBrainStatus(brain_id, status, fault) ==
    /\ UNCHANGED <<kb, clock>>
    /\ IF ~validate_brain_id(brain_id) \/ status \notin BrainStatus
       THEN fault = "none" /\ UpdateFailed(brain_id, status, "invalid_input")
       ELSE IF fault = "read"
       THEN UpdateFailed(brain_id, status, "backend_error")
       ELSE IF BrainPoints(brains, brain_id) = {}
       THEN fault = "none" /\ UpdateFailed(brain_id, status, "not_found")
       ELSE
         LET brain_data == brains[CHOOSE p \in BrainPoints(brains, brain_id) : TRUE]
             current_status == brain_data.status
             vertical == brain_data.vertical
         IN IF ~validate_status_transition(current_status, status)
            THEN fault = "none" /\ UpdateFailed(brain_id, status, "invalid_transition")
            ELSE IF status # "active"
            THEN /\ fault \in {"none", "target"}
                 /\ brains' = IF fault = "none"
                              THEN WriteTarget(brains, brain_id, brain_data, status)
                              ELSE brains
                 /\ last' = Call([op |-> "update_brain_status", brain_id |-> brain_id,
                                  status |-> status, network |-> TRUE,
                                  outcome |-> IF fault = "none" THEN "ok" ELSE "backend_error",
                                  previous_status |->
                                      IF fault = "none" THEN current_status ELSE "none"])
            ELSE IF fault = "scan"
            THEN UpdateFailed(brain_id, status, "backend_error")
            ELSE \E scanned \in Limited(ActivePoints(brains, vertical), ScanLimit) :
                   LET others == {brains[p].id : p \in scanned} \ {brain_id}
                   IN \E done \in SUBSET others, deactivated \in others \cup {NoId} :
                        \* `done`: the brains archived when the call ends;
                        \* `deactivated`: the last one the loop archived.
                        /\ (fault = "archive") => done # others
                        /\ (fault # "archive") => done = others
                        /\ (deactivated = NoId) <=> (done = {} \/ fault # "none")
                        /\ deactivated # NoId => deactivated \in done
                        /\ brains' =
                             IF fault = "none"
                             THEN WriteTarget(ArchiveOthers(brains, scanned, done),
                                              brain_id, brain_data, status)
                             ELSE ArchiveOthers(brains, scanned, done)
                        /\ last' = Call([op |-> "update_brain_status",
                                         brain_id |-> brain_id, status |-> status,
                                         network |-> TRUE,
                                         outcome |-> IF fault = "none" THEN "ok"
                                                     ELSE "backend_error",
                                         previous_status |->
                                             IF fault = "none" THEN current_status
                                             ELSE "none",
                                         deactivated_brain_id |-> deactivated])

(***************************************************************************)
(* update_brain_status, one store access at a time.  The accesses of two   *)
(* server instances that share the store interleave.                       *)
(***************************************************************************)
\* The store accesses that may raise once the brain has been read.
FailingPositions == {"scan", "archive", "write"}

\* Validation and the read of the brain (_validate_brain_exists), up to the
\* check of the transition.
\* (history) The call p begins: it has written nothing when the calls that
\* have scanned did so.
Begun(p, call) ==
    [r \in Procs |->
        IF r = p THEN call
        ELSE [calls[r] EXCEPT !.peers =
                 IF calls[r].status = "active" /\ calls[r].pc \in {"archive", "write", "done"}
                 THEN @ \cup {p} ELSE @ \ {p}]]

\* (history) The calls that have written nothing.
Unwritten ==
    {r \in Procs : \/ calls[r].pc = "scan"
                   \/ calls[r].pc \in {"archive", "write"} /\ calls[r].visited = {}}

BeginUpdate(p, brain_id, status, fault) ==
    LET ended(outcome) ==
            calls' = Begun(p, [IdleCall EXCEPT !.pc = "done", !.brain_id = brain_id,
                                               !.status = status, !.outcome = outcome])
    IN /\ calls[p].pc = "idle"
       /\ UNCHANGED <<brains, kb, clock, last>>
       /\ IF ~validate_brain_id(brain_id) \/ status \notin BrainStatus
          THEN fault = "none" /\ ended("invalid_input")
          ELSE IF fault = "read"
          THEN ended("backend_error")
          ELSE IF BrainPoints(brains, brain_id) = {}
          THEN fault = "none" /\ ended("not_found")
          ELSE
            LET brain_data == brains[CHOOSE q \in BrainPoints(brains, brain_id) : TRUE]
            IN /\ fault = "none"
               /\ IF ~validate_status_transition(brain_data.status, status)
                  THEN ended("invalid_transition")
                  ELSE calls' = Begun(p,
                          [IdleCall EXCEPT
                              !.pc = IF status = "active" THEN "scan" ELSE "write",
                              !.brain_id = brain_id, !.status = status,
                              !.brain_data = brain_data,
                              !.previous_status = brain_data.status])

\* The payloads of the scan that the loop writes back: those of brains other
\* than the target.
OthersFound(call) == {point \in call.results : point.id # call.brain_id}

\* The scroll for the active brains of the target's vertical.
ScanActive(p) ==
    /\ calls[p].pc = "scan"
    /\ \E scanned \in Limited(ActivePoints(brains, calls[p].brain_data.vertical),
                              ScanLimit) :
          LET results == {brains[q] : q \in scanned}
              found == [calls[p] EXCEPT !.results = results,
                                        !.peers = Unwritten \ {p}]
          IN calls' = [calls EXCEPT ![p] =
                          [found EXCEPT !.pc = IF OthersFound(found) = {}
                                               THEN "write" ELSE "archive"]]
    /\ UNCHANGED <<brains, kb, clock, last>>

\* (variant: the brain is left as it is)
ArchivePoint_unchanged(store, payload) == store

\* One turn of the loop: the payload the scan returned is written back with
\* status archived.
ArchivePoint(store, payload) ==
    Upsert(store, generate_point_id(payload.id, payload.id),
           [payload EXCEPT !.status = "archived"])

ArchiveNext(p) ==
    /\ calls[p].pc = "archive"
    /\ \E point \in OthersFound(calls[p]) \ calls[p].visited :
          /\ brains' = ArchivePoint(brains, point)
          /\ calls' = [calls EXCEPT ![p] =
                [@ EXCEPT !.visited = @ \cup {point},
                          !.deactivated_brain_id = point.id,
                          !.pc = IF OthersFound(calls[p]) \ (calls[p].visited \cup {point})
                                      = {}
                                 THEN "write" ELSE "archive"]]
    /\ UNCHANGED <<kb, clock, last>>

\* The write of the target, and the result.
WriteTargetStep(p) ==
    /\ calls[p].pc = "write"
    /\ brains' = WriteTarget(brains, calls[p].brain_id, calls[p].brain_data,
                             calls[p].status)
    /\ calls' = [calls EXCEPT ![p] = [@ EXCEPT !.pc = "done", !.outcome = "ok"]]
    /\ UNCHANGED <<kb, clock, last>>

\* The store access (or the embedding before it) raises: the call ends with
\* what it has written so far.
FailStep(p) ==
    /\ calls[p].pc \in FailingPositions
    /\ calls' = [calls EXCEPT ![p] =
                    [@ EXCEPT !.pc = "done", !.outcome = "backend_error"]]
    /\ UNCHANGED <<brains, kb, clock, last>>

\* The call returns to its client.
ReturnStep(p) ==
    /\ calls[p].pc = "done"
    /\ calls' = [calls EXCEPT ![p] = IdleCall]
    /\ UNCHANGED <<brains, kb, clock, last>>

(***************************************************************************)
(* delete_brain                                                            *)
(***************************************************************************)
\* limit of the scroll for a brain's rows in one collection
DeleteScrollLimit == 10000

\* Where a backend call of delete_brain raises outside the content loop: the
\* read of the brain, or the scroll / delete of the brain record.
DeleteFaults == {"none", "read", "brain"}

\* The points one scroll of the content loop returns.
ScrollRows(coll, brain_id) ==
    CHOOSE S \in Limited(RowsOf(coll, brain_id), DeleteScrollLimit) : TRUE

\* The content loop.  In a collection of `failing` the scroll or the delete
\* raises (the collection is missing, or the store fails): the handler
\* catches it, counts 0 and goes on.
CascadeDelete(store, brain_id, failing) ==
    [c \in Collections |->
        IF c \in failing THEN store[c]
        ELSE DeletePoints(store[c], ScrollRows(store[c], brain_id))]

CascadeCounts(store, brain_id, failing) ==
    [c \in Collections |->
        IF c \in failing THEN 0 ELSE Cardinality(ScrollRows(store[c], brain_id))]

\* (variant: the status is not looked at)
DeletableStatus_any(status) == TRUE

\* Active brains are refused.
DeletableStatus(status) == status # "active"

DeleteFailed(brain_id, confirm, outcome) ==
    /\ UNCHANGED <<brains, kb>>
    /\ last' = Call([op |-> "delete_brain", brain_id |-> brain_id,
                     confirm |-> confirm, outcome |-> outcome,
                     \* the raises of the validation come before the scroll
                     network |-> outcome \notin {"confirm_required", "invalid_input"}])

DeleteBrain(brain_id, confirm, fault, failing) ==
    /\ UNCHANGED clock
    /\ IF ~confirm
       THEN fault = "none" /\ failing = {}
            /\ DeleteFailed(brain_id, confirm, "confirm_required")
       ELSE IF ~validate_brain_id(brain_id)
       THEN fault = "none" /\ failing = {}
            /\ DeleteFailed(brain_id, confirm, "invalid_input")
       ELSE IF fault = "read"
       THEN failing = {} /\ DeleteFailed(brain_id, confirm, "backend_error")
       ELSE IF BrainPoints(brains, brain_id) = {}
       THEN fault = "none" /\ failing = {}
            /\ DeleteFailed(brain_id, confirm, "not_found")
       ELSE IF ~DeletableStatus(
                   brains[CHOOSE p \in BrainPoints(brains, brain_id) : TRUE].status)
       THEN fault = "none" /\ failing = {}
            /\ DeleteFailed(brain_id, confirm, "active_brain")
       ELSE /\ kb' = CascadeDelete(kb, brain_id, failing)
            /\ brains' = IF fault = "brain" THEN brains
                         ELSE DeletePoints(brains,
                                CHOOSE S \in Limited(BrainPoints(brains, brain_id), 1) : TRUE)
            /\ last' = Call([op |-> "delete_brain", brain_id |-> brain_id,
                             confirm |-> confirm, network |-> TRUE,
                             outcome |-> IF fault = "brain" THEN "backend_error" ELSE "ok",
                             deleted_content |->
                                 IF fault = "brain" THEN NoCall.deleted_content
                                 ELSE CascadeCounts(kb, brain_id, failing)])


(***************************************************************************)
(* Seeding: _seed_items_to_collection behind seed_icp_rules,               *)
(* seed_templates, seed_handlers and seed_research                         *)
(***************************************************************************)
\* A JSON value of an item: its type and its text.  Python's str() keeps the
\* text and drops the type: str(1) = str("1") = "1".
StrVal(text) == [t |-> "str", v |-> text]
IntVal(text) == [t |-> "int", v |-> text]
\* item.get(field) of a field the item does not hold
Missing == [t |-> "none", v |-> "None"]

PyStr(x) == x.v

\* Python truth of a value: None, "" and 0 are false.
Truthy(x) == x.t # "none" /\ x.v # "" /\ ~(x.t = "int" /\ x.v = "0")

\* The item carries no "brain_id" field of its own.
Absent == "absent"

SeedTools ==
    [seed_icp_rules |->
        [collection |-> "icp_rules", embed_field |-> "criteria", key_field |-> "name"],
     seed_templates |->
        [collection |-> "response_templates", embed_field |-> "template_text",
         key_field |-> "name"],
     seed_handlers |->
        [collection |-> "objection_handlers", embed_field |-> "objection_text",
         key_field |-> "objection_text"],
     seed_research |->
        [collection |-> "market_research", embed_field |-> "content", key_field |-> "topic"]]

\* An item is [key, embed, category, brain_id]: the value of the tool's key
\* field, of its embed field, of "category", and of a "brain_id" field.  For
\* seed_handlers the key field is the embed field.
EmbedOf(tool, item) == item.embed

KeyOf(tool, item) ==
    IF SeedTools[tool].key_field = SeedTools[tool].embed_field
    THEN item.embed ELSE item.key

\* The check of one item: the missing field, or "none".
ItemError(tool, item) ==
    IF ~Truthy(EmbedOf(tool, item)) THEN SeedTools[tool].embed_field
    ELSE IF ~Truthy(KeyOf(tool, item)) THEN SeedTools[tool].key_field
    ELSE "none"

\* The indices (from 1) of the items that pass, in order.
RECURSIVE ValidItems(_, _, _)
ValidItems(tool, items, i) ==
    IF i > Len(items) THEN <<>>
    ELSE (IF ItemError(tool, items[i]) = "none" THEN <<i>> ELSE <<>>)
         \o ValidItems(tool, items, i + 1)

\* (variant: the index counts from 1)
RECURSIVE SeedingErrors_from_one(_, _, _)
SeedingErrors_from_one(tool, items, i) ==
    IF i > Len(items) THEN <<>>
    ELSE (IF ItemError(tool, items[i]) # "none"
          THEN <<[index |-> i, error |-> ItemError(tool, items[i])]>>
          ELSE <<>>)
         \o SeedingErrors_from_one(tool, items, i + 1)

\* errors: SeedingError(index=idx, error="Missing required field: ..."), with
\* enumerate's index from 0.
RECURSIVE SeedingErrors(_, _, _)
SeedingErrors(tool, items, i) ==
    IF i > Len(items) THEN <<>>
    ELSE (IF ItemError(tool, items[i]) # "none"
          THEN <<[index |-> i - 1, error |-> ItemError(tool, items[i])]>>
          ELSE <<>>)
         \o SeedingErrors(tool, items, i + 1)

\* payload = {"brain_id": brain_id, **item, ...}: a "brain_id" field of the
\* item replaces the call's.
SeedPayload(brain_id, item) ==
    [brain_id |-> IF item.brain_id # Absent THEN item.brain_id ELSE brain_id,
     key |-> item.key, embed |-> item.embed, category |-> item.category]

SeedPointId(tool, brain_id, item) ==
    generate_point_id(brain_id, PyStr(KeyOf(tool, item)))

\* The point of one item: its vector is the embedding of str(text_to_embed).
SeedPoint(tool, brain_id, item) ==
    [vector |-> PyStr(EmbedOf(tool, item)), payload |-> SeedPayload(brain_id, item)]

\* qdrant.upsert(points): the points are written in order.
RECURSIVE UpsertItems(_, _, _, _, _)
UpsertItems(coll, tool, brain_id, items, valid) ==
    IF valid = <<>> THEN coll
    ELSE UpsertItems(Upsert(coll, SeedPointId(tool, brain_id, items[Head(valid)]),
                            SeedPoint(tool, brain_id, items[Head(valid)])),
                     tool, brain_id, items, Tail(valid))

\* _validate_brain_exists, then the status check of _validate_brain_seedable
\* ("read": the scroll raises)
ValidateBrainExists(brain_id, fault) ==
    IF ~validate_brain_id(brain_id) THEN "invalid_input"
    ELSE IF fault = "read" THEN "backend_error"
    ELSE IF BrainPoints(brains, brain_id) = {} THEN "not_found"
    ELSE "ok"

\* (variant: the status of the brain is not looked at)
ValidateBrainSeedable_any_status(brain_id, fault) == ValidateBrainExists(brain_id, fault)

ValidateBrainSeedable(brain_id, fault) ==
    IF ValidateBrainExists(brain_id, fault) # "ok" THEN ValidateBrainExists(brain_id, fault)
    ELSE IF brains[CHOOSE p \in BrainPoints(brains, brain_id) : TRUE].status = "archived"
    THEN "not_seedable"
    ELSE "ok"

\* Where a backend call of a seed tool raises: the read of the brain, the
\* embedding of the batch, the upsert.
SeedFaults == {"none", "read", "embed", "upsert"}

\* The early return on an empty list comes before the brain is looked at.
SeedOutcome(tool, brain_id, items, fault) ==
    IF items = <<>> THEN "ok"
    ELSE IF ValidateBrainSeedable(brain_id, fault) # "ok"
    THEN ValidateBrainSeedable(brain_id, fault)
    ELSE IF ValidItems(tool, items, 1) = <<>> THEN "ok"
    ELSE IF fault \in {"embed", "upsert"} THEN "backend_error"
    ELSE "ok"

\* The fault happens: a call that ends before the failing step has no fault.
SeedFaultApplies(tool, brain_id, items, fault) ==
    \/ fault = "none"
    \/ /\ fault = "read"
       /\ items # <<>>
       /\ validate_brain_id(brain_id)
    \/ /\ fault \in {"embed", "upsert"}
       /\ items # <<>>
       /\ ValidateBrainSeedable(brain_id, "none") = "ok"
       /\ ValidItems(tool, items, 1) # <<>>

Seed(tool, brain_id, items, fault) ==
    LET outcome == SeedOutcome(tool, brain_id, items, fault)
        collection == SeedTools[tool].collection
        checked == outcome = "ok" /\ items # <<>>
        valid == IF checked THEN ValidItems(tool, items, 1) ELSE <<>>
    IN /\ SeedFaultApplies(tool, brain_id, items, fault)
       /\ kb' = [kb EXCEPT ![collection] =
                         UpsertItems(@, tool, brain_id, items, valid)]
       /\ TotalRows(kb') <= MaxRows
       /\ last' = Call([op |-> "seed", tool |-> tool, brain_id |-> brain_id,
                        items |-> items, outcome |-> outcome,
                        \* the first call is the scroll of _validate_brain_exists
                        network |-> items # <<>> /\ validate_brain_id(brain_id),
                        seeded_count |-> Len(valid),
                        errors |-> IF checked THEN SeedingErrors(tool, items, 1)
                                   ELSE <<>>])
       /\ UNCHANGED <<brains, clock>>


(***************************************************************************)
(* _seed_items_to_collection, one backend access at a time.                *)
(***************************************************************************)
\* The locals of a seed call.  status_read is history, not a local: the
\* status the brain had when _validate_brain_seedable read it.
SeedingCall(pc, tool, brain_id, items, outcome) ==
    [pc |-> pc, op |-> "seed", tool |-> tool, brain_id |-> brain_id, items |-> items,
     outcome |-> outcome, status_read |-> "none", seeded_count |-> 0]

\* The early return, _validate_brain_seedable (one scroll of the brains
\* collection) and the check of the items.
ValidateSeed(p, tool, brain_id, items) ==
    LET seedable == ValidateBrainSeedable(brain_id, "none")
    IN /\ calls[p].pc = "idle"
       /\ calls' = [calls EXCEPT ![p] =
             IF items = <<>> THEN SeedingCall("done", tool, brain_id, items, "ok")
             ELSE IF seedable # "ok"
             THEN SeedingCall("done", tool, brain_id, items, seedable)
             ELSE [SeedingCall(IF ValidItems(tool, items, 1) = <<>> THEN "done"
                               ELSE "upsert",
                               tool, brain_id, items,
                               IF ValidItems(tool, items, 1) = <<>> THEN "ok" ELSE "none")
                     EXCEPT !.status_read =
                        brains[CHOOSE q \in BrainPoints(brains, brain_id) : TRUE].status]]
       /\ UNCHANGED <<brains, kb, clock, last>>

\* embed_batch has returned; the points are upserted.
UpsertSeed(p) ==
    LET call == calls[p]
        valid == ValidItems(call.tool, call.items, 1)
    IN /\ call.pc = "upsert"
       /\ kb' = [kb EXCEPT ![SeedTools[call.tool].collection] =
                    UpsertItems(@, call.tool, call.brain_id, call.items, valid)]
       /\ TotalRows(kb') <= MaxRows
       /\ calls' = [calls EXCEPT ![p] =
             [call EXCEPT !.pc = "done", !.outcome = "ok", !.seeded_count = Len(valid)]]
       /\ UNCHANGED <<brains, clock, last>>

\* embed_batch or the upsert raises.
SeedRaises(p) ==
    /\ calls[p].pc = "upsert"
    /\ calls' = [calls EXCEPT ![p] = [@ EXCEPT !.pc = "done", !.outcome = "backend_error"]]
    /\ UNCHANGED <<brains, kb, clock, last>>

(***************************************************************************)
(* The embedding provider: _embed_with_retry and the way its failure       *)
(* reaches the caller of a tool.                                           *)
(***************************************************************************)
\* stop_after_attempt(6)
StopAfterAttempt == 6

\* What client.embed does on one attempt: it returns the embeddings, raises
\* httpx.HTTPStatusError with status 429 or with another status, or raises
\* another exception (here a connection failure).
Responses == {"embeddings", "429", "500", "ConnectError"}

\* The exception _embed_with_retry raises for a response of client.embed.
Raised(response) ==
    IF response = "429" THEN "RateLimitError" ELSE "EmbeddingError"

\* retry_if_exception_type(RateLimitError)
retry_if_exception_type(exception) == exception = "RateLimitError"

\* The call sites of embed_query, embed_document and embed_batch.
EmbedSites ==
    {"query_icp_rules", "find_objection_handler", "search_market_research",
     "check_duplicate", "add_insight", "create_brain", "update_brain_status",
     "_seed_items_to_collection"}

\* Exception type names in which _handle_qdrant_error finds "Connection" or
\* "Timeout".  "RetryError" and "EmbeddingError" hold neither.
UnavailableTypes == {"ConnectionError", "ConnectTimeout", "ReadTimeout"}

\* _handle_qdrant_error: the ToolError raised for an exception.
handle_qdrant_error(error_type) ==
    IF error_type \in UnavailableTypes THEN "backend_unavailable" ELSE "backend_error"

\* The error the caller of the tool gets: _seed_items_to_collection catches
\* EmbeddingError on its own, every other exception reaches the tool's
\* `except Exception` and _handle_qdrant_error.
Surfaced(site, exception) ==
    IF site = "_seed_items_to_collection" /\ exception = "EmbeddingError"
    THEN "embedding_failed"
    ELSE handle_qdrant_error(exception)

\* A tool reaches an embedding call.
EmbedBegin(site) ==
    /\ last' = Call([op |-> "embed", tool |-> site, outcome |-> "pending"])
    /\ UNCHANGED <<brains, kb, clock, calls>>

\* One attempt of _embed_with_retry.  A retried exception that stops the
\* retrying leaves as tenacity's RetryError (reraise is not set).
EmbedAttempt(response) ==
    LET attempt_number == last.attempts + 1
        exception == Raised(response)
        outcome ==
            IF response = "embeddings" THEN "ok"
            ELSE IF ~retry_if_exception_type(exception)
            THEN Surfaced(last.tool, exception)
            ELSE IF attempt_number >= StopAfterAttempt
            THEN Surfaced(last.tool, "RetryError")
            ELSE "pending"
    IN /\ last.op = "embed"
       /\ last.outcome = "pending"
       /\ last' = [last EXCEPT !.attempts = attempt_number,
                               !.responses = Append(@, response),
                               !.outcome = outcome,
                               !.network = TRUE]
       /\ UNCHANGED <<brains, kb, clock, calls>>

(***************************************************************************)
(* The read tools                                                          *)
(***************************************************************************)
\* The texts that are embedded: queries, seeded texts, insight contents.
Texts == {"x", "y", "z"}

\* The similarity of two embedded texts, in hundredths: a text and itself,
\* the near pair x / y, anything else.
Score(query_vector, vector) ==
    IF query_vector = vector THEN 100
    ELSE IF {query_vector, vector} = {"x", "y"} THEN 90
    ELSE 40

\* An optional argument left out
NoneArg == "None"
\* The empty query, which the tools reject
EmptyText == ""

\* The must-conditions of a search: brain_id, and the category (reply_type,
\* content_type) when one is given.
Matching(coll, brain_id, category) ==
    {p \in DOMAIN coll :
        /\ BrainFilter(coll[p].payload, brain_id)
        /\ category # NoneArg => coll[p].payload.category = category}

\* query_points(query, filter, limit, score_threshold): the `limit` best of
\* the matching points that reach the threshold (ties in any order).
QueryPoints(coll, query_vector, brain_id, category, limit, score_threshold) ==
    LET reached == {p \in Matching(coll, brain_id, category) :
                       Score(query_vector, coll[p].vector) >= score_threshold}
    IN {S \in Limited(reached, limit) :
           \A p \in S, q \in reached \ S :
               Score(query_vector, coll[p].vector) >= Score(query_vector, coll[q].vector)}

\* The categories a caller passes, and one that is no value of the enum.
Categories == {"firmographic", "intent"}
BadCategory == "nonsense"
\* limit arguments: in range, and out of range
Limits == {1, 2}
BadLimit == 0

ReadFaults == {"none", "backend"}

ReadFailed(op, brain_id, category, outcome) ==
    last' = Call([op |-> op, brain_id |-> brain_id, category |-> category,
                  outcome |-> outcome])

\* query_icp_rules and search_market_research: validation, embed_query,
\* query_points over the tool's collection.
SemanticSearch(op, collection, brain_id, query, category, limit, fault) ==
    /\ UNCHANGED <<brains, kb, clock>>
    /\ IF \/ ~validate_brain_id(brain_id)
          \/ query = EmptyText
          \/ limit = BadLimit
          \/ category = BadCategory
       THEN fault = "none" /\ ReadFailed(op, brain_id, category, "invalid_input")
       ELSE IF fault = "backend"
       THEN ReadFailed(op, brain_id, category, "backend_error")
       ELSE \E results \in QueryPoints(kb[collection], query, brain_id,
                                       category, limit, 0) :
               last' = Call([op |-> op, brain_id |-> brain_id, category |-> category,
                             query |-> query, limit |-> limit,
                             outcome |-> "ok", hits |-> results])

QueryIcpRules(brain_id, query, category, limit, fault) ==
    SemanticSearch("query_icp_rules", "icp_rules", brain_id, query, category, limit, fault)

SearchMarketResearch(brain_id, query, content_type, limit, fault) ==
    SemanticSearch("search_market_research", "market_research", brain_id, query,
                   content_type, limit, fault)

\* limit of the scroll of get_response_template
TemplateScrollLimit == 10

\* get_response_template: a scroll on brain_id and reply_type.  The optional
\* tier condition narrows the same filter further; payloads carry no tier here.
GetResponseTemplate(brain_id, reply_type, fault) ==
    /\ UNCHANGED <<brains, kb, clock>>
    /\ IF ~validate_brain_id(brain_id) \/ reply_type = BadCategory
       THEN fault = "none"
            /\ ReadFailed("get_response_template", brain_id, reply_type, "invalid_input")
       ELSE IF fault = "backend"
       THEN ReadFailed("get_response_template", brain_id, reply_type, "backend_error")
       ELSE \E results \in Limited(Matching(kb["response_templates"], brain_id,
                                            reply_type), TemplateScrollLimit) :
               last' = Call([op |-> "get_response_template", brain_id |-> brain_id,
                             category |-> reply_type, outcome |-> "ok",
                             limit |-> TemplateScrollLimit, hits |-> results])

\* OBJECTION_CONFIDENCE_THRESHOLD, in hundredths
OBJECTION_CONFIDENCE_THRESHOLD == 70

\* find_objection_handler: the best handler of the brain at or above the
\* threshold, or None.
FindObjectionHandler(brain_id, objection_text, fault) ==
    /\ UNCHANGED <<brains, kb, clock>>
    /\ IF ~validate_brain_id(brain_id) \/ objection_text = EmptyText
       THEN fault = "none"
            /\ ReadFailed("find_objection_handler", brain_id, NoneArg, "invalid_input")
       ELSE IF fault = "backend"
       THEN ReadFailed("find_objection_handler", brain_id, NoneArg, "backend_error")
       ELSE \E results \in QueryPoints(kb["objection_handlers"], objection_text,
                                       brain_id, NoneArg, 1,
                                       OBJECTION_CONFIDENCE_THRESHOLD) :
               last' = Call([op |-> "find_objection_handler", brain_id |-> brain_id,
                             category |-> NoneArg, query |-> objection_text,
                             limit |-> 1, outcome |-> "ok", hits |-> results])

\* limit of the counting scroll of get_brain_stats
StatsScrollLimit == 1000

\* get_brain_stats: the brain must exist; per collection the number of points
\* a scroll on brain_id returns, 0 where the scroll raises.
GetBrainStats(brain_id, fault, failing) ==
    /\ UNCHANGED <<brains, kb, clock>>
    /\ IF ValidateBrainExists(brain_id, fault) # "ok"
       THEN failing = {}
            /\ ReadFailed("get_brain_stats", brain_id, NoneArg,
                          ValidateBrainExists(brain_id, fault))
       ELSE last' = Call([op |-> "get_brain_stats", brain_id |-> brain_id,
                          outcome |-> "ok",
                          stats |-> [c \in Collections |->
                              IF c \in failing THEN 0
                              ELSE Cardinality(
                                     CHOOSE S \in Limited(RowsOf(kb[c], brain_id),
                                                          StatsScrollLimit) : TRUE)]])


(***************************************************************************)
(* The quality gate (quality_gates.py) and add_insight                     *)
(***************************************************************************)
\* Scores are in hundredths.
\* (variant: only closer matches count as duplicates)
DUPLICATE_SIMILARITY_THRESHOLD_strict == 85 + 10

DUPLICATE_SIMILARITY_THRESHOLD == 85
\* (variant: a floor of 0.60)
MIN_CONFIDENCE_THRESHOLD_low == 70 - 10
MIN_CONFIDENCE_THRESHOLD == 70
\* confidence < 0.80 requires validation
ValidationConfidence == 80
BaseConfidence == 50
QuoteBonus == 10
CompanyBonus == 10
ConfidenceCap == 100

SourceTypes == {"call_transcript", "email_reply", "linkedin_message", "manual_entry"}

\* (variant: every source type has the bonus of a call transcript)
SOURCE_TYPE_SCORES_flat(type) == BaseConfidence - 30

\* SOURCE_TYPE_SCORES.get(source.type, 0.0)
SOURCE_TYPE_SCORES(type) ==
    CASE type = "call_transcript" -> 20
      [] type = "email_reply" -> 10
      [] type = "linkedin_message" -> 5
      [] OTHER -> 0

Min(a, b) == IF a <= b THEN a ELSE b

\* (variant: the quote bonus is given to every source)
calculate_confidence_quote_always(content, source) ==
    Min(BaseConfidence + SOURCE_TYPE_SCORES(source.type) + QuoteBonus
          + (IF source.company_name # "" THEN CompanyBonus ELSE 0),
        ConfidenceCap)

\* A source is [type, id, company_name, extracted_quote], "" for a field that
\* is None or empty.
calculate_confidence(content, source) ==
    Min(BaseConfidence + SOURCE_TYPE_SCORES(source.type)
          + (IF source.extracted_quote # "" THEN QuoteBonus ELSE 0)
          + (IF source.company_name # "" THEN CompanyBonus ELSE 0),
        ConfidenceCap)

InsightCategory ==
    {"buying_process", "pain_point", "objection", "competitive_intel",
     "messaging_effectiveness", "icp_signal"}

Importance == {"low", "medium", "high"}

VALIDATION_REQUIRED_CATEGORIES == {"buying_process", "icp_signal"}

\* (variant: no insight is sent to validation)
should_require_validation_never(importance, category, confidence) == FALSE

\* (variant: the confidence test is not strict)
should_require_validation_at_most(importance, category, confidence) ==
    IF importance = "high" THEN TRUE
    ELSE IF category \in VALIDATION_REQUIRED_CATEGORIES THEN TRUE
    ELSE confidence <= ValidationConfidence

should_require_validation(importance, category, confidence) ==
    IF importance = "high" THEN TRUE
    ELSE IF category \in VALIDATION_REQUIRED_CATEGORIES THEN TRUE
    ELSE confidence < ValidationConfidence

\* (variant: the search is over the insights of every brain)
check_duplicate_any_brain(store, brain_id, content) ==
    {S \in SUBSET {p \in DOMAIN store["insights"] :
                      Score(content, store["insights"][p].vector)
                         >= DUPLICATE_SIMILARITY_THRESHOLD} :
        Cardinality(S) = Min(1, Cardinality({p \in DOMAIN store["insights"] :
                      Score(content, store["insights"][p].vector)
                         >= DUPLICATE_SIMILARITY_THRESHOLD}))}

\* check_duplicate: the result sets the search of the brain's insights may
\* return (limit 1, at or above the duplicate threshold).
check_duplicate(store, brain_id, content) ==
    QueryPoints(store["insights"], content, brain_id, NoneArg, 1,
                DUPLICATE_SIMILARITY_THRESHOLD)

\* A content shorter than 10 characters.
ShortContent == "tiny"
\* A content of more than 5000 characters.
LongContent == "long"
\* source=None
NoSource == [type |-> "", id |-> "", company_name |-> "", extracted_quote |-> ""]

\* uuid4(): a fresh id
RECURSIVE FreshUuid(_, _)
FreshUuid(used, k) ==
    IF ("uuid-" \o ToString(k)) \in used THEN FreshUuid(used, k + 1)
    ELSE "uuid-" \o ToString(k)

\* Where a backend call of add_insight raises: in check_duplicate (embed_query,
\* query_points), or when the insight is stored (embed_document, upsert).
InsightFaults == {"none", "gate", "store"}

InsightDone(brain_id, content, category, outcome, status, checked, confidence) ==
    last' = Call([op |-> "add_insight", brain_id |-> brain_id, category |-> category,
                  query |-> content, outcome |-> outcome, insight_status |-> status,
                  \* the first call is the embed_query of check_duplicate
                  duplicate_checked |-> checked, network |-> checked,
                  confidence |-> confidence])

\* The pure functions of the quality gate, called on their own.
CalculateConfidence(content, source) ==
    /\ last' = Call([op |-> "calculate_confidence", query |-> content,
                     source |-> source, outcome |-> "ok",
                     confidence |-> calculate_confidence(content, source)])
    /\ UNCHANGED <<brains, kb, clock>>

ShouldRequireValidation(importance, category, confidence) ==
    /\ last' = Call([op |-> "should_require_validation", importance |-> importance,
                     category |-> category, confidence |-> confidence,
                     outcome |-> "ok",
                     needs_validation |->
                         should_require_validation(importance, category, confidence)])
    /\ UNCHANGED <<brains, kb, clock>>

AddInsight(brain_id, content, category, importance, source, fault) ==
    /\ UNCHANGED <<brains, clock>>
    /\ IF \/ ~validate_brain_id(brain_id)
          \/ content \in {ShortContent, LongContent}
          \/ category \notin InsightCategory
          \/ importance \notin Importance
          \/ source.type = ""
          \/ source.id = ""
       THEN /\ fault = "none"
            /\ kb' = kb
            /\ InsightDone(brain_id, content, category, "invalid_input", "none", FALSE, 0)
       ELSE
         LET confidence == calculate_confidence(content, source)
         IN IF confidence < MIN_CONFIDENCE_THRESHOLD
            THEN /\ fault = "none"
                 /\ kb' = kb
                 /\ InsightDone(brain_id, content, category, "ok", "rejected", FALSE, confidence)
            ELSE IF fault = "gate"
            THEN /\ kb' = kb
                 /\ InsightDone(brain_id, content, category, "backend_error", "none", TRUE,
                                confidence)
            ELSE \E results \in check_duplicate(kb, brain_id, content) :
                   IF results # {}
                   THEN /\ fault = "none"
                        /\ kb' = kb
                        /\ last' = Call([op |-> "add_insight", brain_id |-> brain_id,
                                         category |-> category, outcome |-> "ok",
                                         insight_status |-> "duplicate",
                                         duplicate_checked |-> TRUE, network |-> TRUE,
                                         query |-> content, limit |-> 1,
                                         confidence |-> confidence, hits |-> results,
                                         existing_id |-> CHOOSE p \in results : TRUE])
                   ELSE IF fault = "store"
                   THEN /\ kb' = kb
                        /\ InsightDone(brain_id, content, category, "backend_error", "none",
                                       TRUE, confidence)
                   ELSE
                     LET insight_id == FreshUuid(DOMAIN kb["insights"], 1)
                         requires_validation ==
                             should_require_validation(importance, category, confidence)
                         payload ==
                             [brain_id |-> brain_id, content |-> content,
                              category |-> category, importance |-> importance,
                              source |-> source, confidence |-> confidence,
                              validation |-> [status |-> "pending",
                                              needs_validation |-> requires_validation]]
                     IN /\ kb' = [kb EXCEPT !["insights"] =
                                          Upsert(@, insight_id,
                                                 [vector |-> content, payload |-> payload])]
                        /\ TotalRows(kb') <= MaxRows
                        /\ last' = Call([op |-> "add_insight", brain_id |-> brain_id,
                                         category |-> category, outcome |-> "ok",
                                         insight_status |-> "created",
                                         duplicate_checked |-> TRUE, network |-> TRUE,
                                         query |-> content, limit |-> 1,
                                         confidence |-> confidence,
                                         insight_id |-> insight_id,
                                         needs_validation |-> requires_validation])

(***************************************************************************)
(* add_insight, one backend access at a time.  The accesses of two server  *)
(* instances that share the store interleave.                              *)
(***************************************************************************)
\* The locals of an add_insight call.  seen is history, not a local: the
\* insights of the brain that were stored when the call searched them.
InsightCall(pc, brain_id, content, category, importance, source, confidence) ==
    [pc |-> pc, op |-> "add_insight", brain_id |-> brain_id, content |-> content,
     category |-> category, importance |-> importance, source |-> source,
     confidence |-> confidence, outcome |-> "none", insight_status |-> "none",
     insight_id |-> NoId, existing_id |-> NoId, seen |-> {}]

InsightEnded(call, outcome, status) ==
    [call EXCEPT !.pc = "done", !.outcome = outcome, !.insight_status = status]

\* The validation, and run_quality_gate up to the confidence floor.
BeginInsight(p, brain_id, content, category, importance, source) ==
    LET confidence == calculate_confidence(content, source)
        call(pc) == InsightCall(pc, brain_id, content, category, importance, source,
                                confidence)
    IN /\ calls[p].pc = "idle"
       /\ calls' = [calls EXCEPT ![p] =
             IF \/ ~validate_brain_id(brain_id)
                \/ content \in {ShortContent, LongContent}
                \/ category \notin InsightCategory
                \/ importance \notin Importance
                \/ source.type = ""
                \/ source.id = ""
             THEN InsightEnded([call("done") EXCEPT !.confidence = 0],
                               "invalid_input", "none")
             ELSE IF confidence < MIN_CONFIDENCE_THRESHOLD
             THEN InsightEnded(call("done"), "ok", "rejected")
             ELSE call("check")]
       /\ UNCHANGED <<brains, kb, clock, last>>

\* check_duplicate: the search of the brain's insights.
CheckDuplicate(p) ==
    /\ calls[p].pc = "check"
    /\ \E results \in check_duplicate(kb, calls[p].brain_id, calls[p].content) :
          LET searched ==
                 [calls[p] EXCEPT !.seen =
                     {q \in DOMAIN kb["insights"] :
                         kb["insights"][q].payload.brain_id = calls[p].brain_id}]
          IN calls' = [calls EXCEPT ![p] =
                IF results # {}
                THEN [InsightEnded(searched, "ok", "duplicate")
                         EXCEPT !.existing_id = CHOOSE q \in results : TRUE]
                ELSE [searched EXCEPT !.pc = "store"]]
    /\ UNCHANGED <<brains, kb, clock, last>>

\* The insight is stored under a fresh uuid4.
StoreInsight(p) ==
    LET call == calls[p]
        insight_id == FreshUuid(DOMAIN kb["insights"], 1)
        payload ==
            [brain_id |-> call.brain_id, content |-> call.content,
             category |-> call.category, importance |-> call.importance,
             source |-> call.source, confidence |-> call.confidence,
             validation |->
                [status |-> "pending",
                 needs_validation |->
                    should_require_validation(call.importance, call.category,
                                              call.confidence)]]
    IN /\ call.pc = "store"
       /\ kb' = [kb EXCEPT !["insights"] =
                    Upsert(@, insight_id, [vector |-> call.content, payload |-> payload])]
       /\ TotalRows(kb') <= MaxRows
       /\ calls' = [calls EXCEPT ![p] =
                       [InsightEnded(call, "ok", "created") EXCEPT !.insight_id = insight_id]]
       /\ UNCHANGED <<brains, clock, last>>

\* A backend call of the search or of the storing raises.
InsightRaises(p) ==
    /\ calls[p].pc \in {"check", "store"}
    /\ calls' = [calls EXCEPT ![p] = InsightEnded(@, "backend_error", "none")]
    /\ UNCHANGED <<brains, kb, clock, last>>

\* A failure in a collection without rows of the brain (a missing collection
\* among them) counts 0 like an empty scroll, so the failing collections are
\* drawn among those that hold rows of the brain.
HoldingRows(store, brain_id) == {c \in Collections : RowsOf(store[c], brain_id) # {}}

(***************************************************************************)
(* Arguments of the calls                                                  *)
(***************************************************************************)
\* The brain ids a caller passes: well formed ones, stored or not, and a
\* malformed one.
BrainIdArgs == {generate_brain_id(v, t) : v \in Verticals, t \in 1..MaxClock} \cup {MalformedId}

ItemA == [key |-> StrVal("a"), embed |-> StrVal("x"), category |-> "firmographic",
          brain_id |-> Absent]
\* the key of ItemA with another text
ItemA2 == [ItemA EXCEPT !.embed = StrVal("y"), !.category = "intent"]
\* the number 1 and the string "1" as keys
ItemInt1 == [ItemA EXCEPT !.key = IntVal("1")]
ItemStr1 == [ItemA EXCEPT !.key = StrVal("1"), !.embed = StrVal("y")]
ItemNoEmbed == [ItemA EXCEPT !.embed = Missing]
ItemEmptyKey == [ItemA EXCEPT !.key = StrVal(""), !.embed = StrVal("z")]
\* an item with a "brain_id" field of its own
ItemForeign == [ItemA EXCEPT !.key = StrVal("b"), !.brain_id = generate_brain_id("def", 1)]

\* The call in flight has returned: the next call starts.
Return ==
    /\ last.op # "none"
    /\ last' = NoCall
    /\ UNCHANGED <<brains, kb, clock, calls>>

Idle == last.op = "none"

(***************************************************************************)
(* Specification of the brain lifecycle: from the empty store, brains are  *)
(* created, change status and are deleted, one call after the other.       *)
(***************************************************************************)
CreateCall ==
    /\ Idle
    /\ UNCHANGED calls
    /\ \E v \in Verticals \cup {BadVertical}, n \in Names \cup {ShortName},
          f \in CreateFaults : CreateBrain(v, n, f)

UpdateCall ==
    /\ Idle
    /\ UNCHANGED calls
    /\ \E b \in BrainIdArgs, s \in BrainStatus \cup {BogusStatus},
          f \in UpdateFaults : UpdateBrainStatus(b, s, f)

DeleteCall ==
    /\ Idle
    /\ UNCHANGED calls
    /\ \E b \in BrainIdArgs, c \in BOOLEAN, f \in DeleteFaults :
          \E failing \in SUBSET HoldingRows(kb, b) : DeleteBrain(b, c, f, failing)

Next ==
    \/ Idle /\ Tick
    \/ Return
    \/ CreateCall
    \/ UpdateCall
    \/ DeleteCall

Spec == Init /\ [][Next]_vars

(***************************************************************************)
(* Specification of deletion: a store with an archived, an active and a    *)
(* draft brain (a state the lifecycle reaches) receives content, and       *)
(* brains are deleted and change status.                                   *)
(***************************************************************************)
BrainRecord(vertical, timestamp_ms, status) ==
    [id |-> generate_brain_id(vertical, timestamp_ms), name |-> "Alpha",
     vertical |-> vertical, status |-> status]

PutBrain(store, record) == Upsert(store, generate_point_id(record.id, record.id), record)

ArchivedBrain == generate_brain_id("fin", 1)
ActiveBrain == generate_brain_id("fin", 2)
DraftBrain == generate_brain_id("def", 1)
\* a well-formed id that is not stored
UnknownBrain == generate_brain_id("def", 2)

PopulatedBrains ==
    PutBrain(PutBrain(PutBrain(EmptyCollection,
        BrainRecord("fin", 1, "archived")),
        BrainRecord("fin", 2, "active")),
        BrainRecord("def", 1, "draft"))

PopulatedArgs == {ArchivedBrain, ActiveBrain, DraftBrain, UnknownBrain, MalformedId}

InitPopulated ==
    /\ calls = [p \in Procs |-> IdleCall]
    /\ brains = PopulatedBrains
    /\ kb = [c \in Collections |-> EmptyCollection]
    /\ clock = 2
    /\ last = NoCall

LifecycleItems == {<<ItemA>>}

LifecycleTools == {"seed_icp_rules", "seed_handlers"}

LifecycleSource ==
    [type |-> "call_transcript", id |-> "call-1", company_name |-> "Acme",
     extracted_quote |-> ""]

SeedSomeCall ==
    /\ Idle
    /\ UNCHANGED calls
    /\ \E t \in LifecycleTools, b \in PopulatedArgs, items \in LifecycleItems :
          Seed(t, b, items, "none")

AddSomeInsightCall ==
    /\ Idle
    /\ UNCHANGED calls
    /\ \E b \in PopulatedArgs :
          AddInsight(b, "x", "pain_point", "low", LifecycleSource, "none")

DeletePopulatedCall ==
    /\ Idle
    /\ UNCHANGED calls
    /\ \E b \in PopulatedArgs, c \in BOOLEAN, f \in DeleteFaults :
          \E failing \in SUBSET HoldingRows(kb, b) : DeleteBrain(b, c, f, failing)

UpdatePopulatedCall ==
    /\ Idle
    /\ UNCHANGED calls
    /\ \E b \in PopulatedArgs, s \in BrainStatus, f \in UpdateFaults :
          UpdateBrainStatus(b, s, f)

NextDelete ==
    \/ Return
    \/ SeedSomeCall
    \/ AddSomeInsightCall
    \/ DeletePopulatedCall
    \/ UpdatePopulatedCall

SpecDelete == InitPopulated /\ [][NextDelete]_vars

\* The populated store is a state of the lifecycle.
PopulatedReached == brains = PopulatedBrains /\ clock = 2 /\ Idle

(***************************************************************************)
(* Specification of seeding: the four seed tools write to the populated    *)
(* store, with valid, invalid, repeated and empty batches.                 *)
(***************************************************************************)
SeedLists ==
    {<<>>, <<ItemA>>, <<ItemA, ItemNoEmbed, ItemStr1>>, <<ItemA, ItemA2>>,
     <<ItemInt1, ItemStr1>>, <<ItemEmptyKey>>, <<ItemForeign>>}

SeedCall ==
    /\ Idle
    /\ UNCHANGED calls
    /\ \E t \in DOMAIN SeedTools, b \in PopulatedArgs, items \in SeedLists,
          f \in SeedFaults : Seed(t, b, items, f)

NextSeed ==
    \/ Return
    \/ SeedCall

SpecSeed == InitPopulated /\ [][NextSeed]_vars

(***************************************************************************)
(* Specification of the reads: content of several brains is seeded and     *)
(* insights are added to the populated store, and every read tool is       *)
(* called for every brain.                                                 *)
(***************************************************************************)
ReadItems == {<<ItemA>>, <<ItemStr1>>, <<ItemForeign>>}

ReadLimits == {1, BadLimit}
ReadQueries == {"x", EmptyText}
ReadCategories == {NoneArg, "firmographic", BadCategory}

SeedForReadsCall ==
    /\ Idle
    /\ UNCHANGED calls
    /\ \E t \in DOMAIN SeedTools, b \in {ActiveBrain, DraftBrain}, items \in ReadItems :
          Seed(t, b, items, "none")

QueryIcpRulesCall ==
    /\ Idle
    /\ UNCHANGED calls
    /\ \E b \in PopulatedArgs, q \in ReadQueries, c \in ReadCategories,
          l \in ReadLimits, f \in ReadFaults : QueryIcpRules(b, q, c, l, f)

SearchMarketResearchCall ==
    /\ Idle
    /\ UNCHANGED calls
    /\ \E b \in PopulatedArgs, q \in ReadQueries, c \in ReadCategories,
          l \in ReadLimits, f \in ReadFaults : SearchMarketResearch(b, q, c, l, f)

GetResponseTemplateCall ==
    /\ Idle
    /\ UNCHANGED calls
    /\ \E b \in PopulatedArgs, c \in ReadCategories \ {NoneArg}, f \in ReadFaults :
          GetResponseTemplate(b, c, f)

FindObjectionHandlerCall ==
    /\ Idle
    /\ UNCHANGED calls
    /\ \E b \in PopulatedArgs, q \in ReadQueries, f \in ReadFaults :
          FindObjectionHandler(b, q, f)

GetBrainStatsCall ==
    /\ Idle
    /\ UNCHANGED calls
    /\ \E b \in PopulatedArgs, f \in {"none", "read"} :
          \E failing \in SUBSET HoldingRows(kb, b) : GetBrainStats(b, f, failing)

NextRead ==
    \/ Return
    \/ SeedForReadsCall
    \/ AddSomeInsightCall
    \/ QueryIcpRulesCall
    \/ SearchMarketResearchCall
    \/ GetResponseTemplateCall
    \/ FindObjectionHandlerCall
    \/ GetBrainStatsCall

SpecRead == InitPopulated /\ [][NextRead]_vars

(***************************************************************************)
(* Specification of add_insight: insights of every kind of source are      *)
(* submitted to two brains, with valid and invalid arguments.              *)
(***************************************************************************)
Source(type, company_name, extracted_quote) ==
    [type |-> type, id |-> "src-1", company_name |-> company_name,
     extracted_quote |-> extracted_quote]

\* Sources of confidence 0.50, 0.65, 0.70 and 0.80, and source=None.
InsightSources ==
    {Source("manual_entry", "", ""), Source("linkedin_message", "Acme", ""),
     Source("email_reply", "", "quote"), Source("call_transcript", "Acme", ""),
     NoSource}

InsightBrains == {ActiveBrain, DraftBrain, MalformedId}
\* "x" and "y" are near duplicates of each other.
InsightContents == {"x", "y", ShortContent}
InsightCategories == {"pain_point", "icp_signal", BadCategory}
InsightImportances == {"low", "high", "urgent"}

AddInsightCall ==
    /\ Idle
    /\ UNCHANGED calls
    /\ \E b \in InsightBrains, content \in InsightContents,
          category \in InsightCategories, importance \in InsightImportances,
          source \in InsightSources, f \in InsightFaults :
          AddInsight(b, content, category, importance, source, f)

NextInsight ==
    \/ Return
    \/ AddInsightCall

SpecInsight == InitPopulated /\ [][NextInsight]_vars

(***************************************************************************)
(* Specification of the quality-gate functions: calculate_confidence and   *)
(* should_require_validation are applied to every input.                   *)
(***************************************************************************)
\* The source types, and one that SOURCE_TYPE_SCORES does not hold.
GateSourceTypes == SourceTypes \cup {"webinar"}
GateTexts == {"", "text"}
\* 0.50 to 0.90 in steps of 0.05: the values calculate_confidence returns.
GateConfidences == {BaseConfidence + 5 * k : k \in 0..8}

CalculateConfidenceCall ==
    /\ Idle
    /\ UNCHANGED calls
    /\ \E content \in Texts, type \in GateSourceTypes, company_name \in GateTexts,
          extracted_quote \in GateTexts :
          CalculateConfidence(content, Source(type, company_name, extracted_quote))

ShouldRequireValidationCall ==
    /\ Idle
    /\ UNCHANGED calls
    /\ \E importance \in Importance, category \in InsightCategory,
          confidence \in GateConfidences :
          ShouldRequireValidation(importance, category, confidence)

NextGate ==
    \/ Return
    \/ CalculateConfidenceCall
    \/ ShouldRequireValidationCall

SpecGate == InitPopulated /\ [][NextGate]_vars

(***************************************************************************)
(* Specification of concurrent status updates: two server instances run    *)
(* update_brain_status on three brains of one vertical, one store access   *)
(* at a time.                                                              *)
(***************************************************************************)
OldBrain == generate_brain_id("fin", 1)
LiveBrain == generate_brain_id("fin", 2)
NewBrain == generate_brain_id("fin", 3)

VerticalBrains ==
    PutBrain(PutBrain(PutBrain(EmptyCollection,
        BrainRecord("fin", 1, "archived")),
        BrainRecord("fin", 2, "active")),
        BrainRecord("fin", 3, "draft"))

InitVertical ==
    /\ calls = [p \in Procs |-> IdleCall]
    /\ brains = VerticalBrains
    /\ kb = [c \in Collections |-> EmptyCollection]
    /\ clock = 3
    /\ last = NoCall

StepArgs == {OldBrain, LiveBrain, NewBrain}
StepStatuses == {"active", "archived"}

BeginUpdateStep == \E p \in Procs, b \in StepArgs, st \in StepStatuses : BeginUpdate(p, b, st, "none")
ScanActiveStep == \E p \in Procs : ScanActive(p)
ArchiveNextStep == \E p \in Procs : ArchiveNext(p)
WriteTargetSteps == \E p \in Procs : WriteTargetStep(p)
FailSteps == \E p \in Procs : FailStep(p)
ReturnSteps == \E p \in Procs : ReturnStep(p)

NextRace ==
    \/ BeginUpdateStep
    \/ ScanActiveStep
    \/ ArchiveNextStep
    \/ WriteTargetSteps
    \/ FailSteps
    \/ ReturnSteps

SpecRace == InitVertical /\ [][NextRace]_vars

(***************************************************************************)
(* Specification of one uninterrupted update_brain_status call at a time,  *)
(* one store access at a time, from the statuses the concurrent updates    *)
(* leave the three brains of the vertical with.                            *)
(***************************************************************************)
\* The statuses of OldBrain, LiveBrain and NewBrain that SpecRace reaches.
RacedStatuses ==
    {<<"archived", "active", "draft">>, <<"archived", "archived", "draft">>,
     <<"active", "archived", "draft">>, <<"active", "active", "draft">>,
     <<"archived", "archived", "active">>, <<"active", "archived", "active">>,
     <<"archived", "active", "active">>, <<"archived", "archived", "archived">>,
     <<"active", "archived", "archived">>, <<"archived", "active", "archived">>,
     <<"active", "active", "archived">>}

InitRaced ==
    /\ calls = [p \in Procs |-> IdleCall]
    /\ \E statuses \in RacedStatuses :
          brains = PutBrain(PutBrain(PutBrain(EmptyCollection,
                       BrainRecord("fin", 1, statuses[1])),
                       BrainRecord("fin", 2, statuses[2])),
                       BrainRecord("fin", 3, statuses[3]))
    /\ kb = [c \in Collections |-> EmptyCollection]
    /\ clock = 3
    /\ last = NoCall

SoloBegin ==
    \E b \in StepArgs \cup {UnknownBrain, MalformedId},
       st \in BrainStatus \cup {BogusStatus}, f \in {"none", "read"} :
          BeginUpdate(1, b, st, f)
SoloScan == ScanActive(1)
SoloArchive == ArchiveNext(1)
SoloWrite == WriteTargetStep(1)
SoloFail == FailStep(1)
SoloReturn == ReturnStep(1)

NextSolo ==
    \/ SoloBegin
    \/ SoloScan
    \/ SoloArchive
    \/ SoloWrite
    \/ SoloFail
    \/ SoloReturn

SpecSolo == InitRaced /\ [][NextSolo]_vars

(***************************************************************************)
(* Specification of the parameter validation: add_insight,                 *)
(* update_brain_status, delete_brain and a seed tool are called with valid *)
(* parameters and with each kind of invalid parameter.                     *)
(***************************************************************************)
ValidationContents == {"x", ShortContent, LongContent}
\* A valid source, source=None, a source without type, a source without id.
ValidationSources ==
    {LifecycleSource, NoSource, [LifecycleSource EXCEPT !.type = ""],
     [LifecycleSource EXCEPT !.id = ""]}
ValidationCategories == {"pain_point", BadCategory}
ValidationImportances == {"medium", "urgent"}
ValidationStatuses == BrainStatus \cup {BogusStatus}
ValidationItems == {<<>>, <<ItemA>>}
\* The brain that content is written for, and a malformed id.
ValidationBrains == {ActiveBrain, MalformedId}

ValidatedInsightCall ==
    /\ Idle
    /\ UNCHANGED calls
    /\ \E b \in ValidationBrains, content \in ValidationContents,
          category \in ValidationCategories, importance \in ValidationImportances,
          source \in ValidationSources, f \in InsightFaults :
          AddInsight(b, content, category, importance, source, f)

ValidatedUpdateCall ==
    /\ Idle
    /\ UNCHANGED calls
    /\ \E b \in PopulatedArgs, st \in ValidationStatuses, f \in UpdateFaults :
          UpdateBrainStatus(b, st, f)

ValidatedSeedCall ==
    /\ Idle
    /\ UNCHANGED calls
    /\ \E b \in ValidationBrains, items \in ValidationItems, f \in SeedFaults :
          Seed("seed_icp_rules", b, items, f)

NextValidation ==
    \/ Return
    \/ ValidatedInsightCall
    \/ ValidatedUpdateCall
    \/ DeletePopulatedCall
    \/ ValidatedSeedCall

SpecValidation == InitPopulated /\ [][NextValidation]_vars

(***************************************************************************)
(* Specification of the embedding calls: every call site, every sequence   *)
(* of responses of the provider.                                           *)
(***************************************************************************)
EmbedBeginCall == Idle /\ \E site \in EmbedSites : EmbedBegin(site)
EmbedAttemptCall == \E response \in Responses : EmbedAttempt(response)
EmbedReturn == last.outcome # "pending" /\ Return

NextEmbed ==
    \/ EmbedBeginCall
    \/ EmbedAttemptCall
    \/ EmbedReturn

SpecEmbed == InitPopulated /\ [][NextEmbed]_vars

(***************************************************************************)
(* Specification of the calls that leave brain records alone or change     *)
(* only their status: status updates, seeding, insights and get_* reads    *)
(* on the populated store.                                                 *)
(***************************************************************************)
NextFrame ==
    \/ Return
    \/ UpdatePopulatedCall
    \/ SeedSomeCall
    \/ AddSomeInsightCall
    \/ GetResponseTemplateCall
    \/ GetBrainStatsCall

SpecFrame == InitPopulated /\ [][NextFrame]_vars

(***************************************************************************)
(* Specification of concurrent add_insight calls: two server instances     *)
(* add insights to the populated store, one backend access at a time.      *)
(***************************************************************************)
\* A source of confidence 0.80 and one of confidence 0.50.
RaceSources == {LifecycleSource, Source("manual_entry", "", "")}
RaceBrains == {ActiveBrain, DraftBrain, MalformedId}
\* "x" and "y" are near duplicates of each other, "z" is similar to neither.
RaceContents == {"x", "y", "z"}

BeginInsightStep ==
    \E p \in Procs, b \in RaceBrains, content \in RaceContents, source \in RaceSources :
       BeginInsight(p, b, content, "pain_point", "low", source)
CheckDuplicateStep == \E p \in Procs : CheckDuplicate(p)
StoreInsightStep == \E p \in Procs : StoreInsight(p)
InsightRaisesStep == \E p \in Procs : InsightRaises(p)

NextInsightRace ==
    \/ BeginInsightStep
    \/ CheckDuplicateStep
    \/ StoreInsightStep
    \/ InsightRaisesStep
    \/ ReturnSteps

SpecInsightRace == InitPopulated /\ [][NextInsightRace]_vars

(***************************************************************************)
(* Specification of delete_brain between the store accesses of concurrent  *)
(* update_brain_status calls on the three brains of one vertical.  last    *)
(* keeps the latest delete_brain call and its result.                      *)
(***************************************************************************)
\* The draft brain is activated and the active brain is archived.
StaleUpdates == {<<NewBrain, "active">>, <<LiveBrain, "archived">>}
StaleArgs == {LiveBrain, NewBrain}

BeginStaleStep ==
    \E p \in Procs, update \in StaleUpdates : BeginUpdate(p, update[1], update[2], "none")

DeleteBetween ==
    /\ UNCHANGED calls
    /\ \E b \in StaleArgs : DeleteBrain(b, TRUE, "none", {})

NextStale ==
    \/ BeginStaleStep
    \/ ScanActiveStep
    \/ ArchiveNextStep
    \/ WriteTargetSteps
    \/ FailSteps
    \/ ReturnSteps
    \/ DeleteBetween

SpecStale == InitVertical /\ [][NextStale]_vars

(***************************************************************************)
(* Specification of seed calls, one backend access at a time, with         *)
(* update_brain_status and delete_brain calls between their accesses.      *)
(***************************************************************************)
SeededBrains == {ArchivedBrain, ActiveBrain, DraftBrain}
SeededItems == {<<>>, <<ItemA>>, <<ItemNoEmbed>>}

ValidateSeedStep ==
    \E p \in Procs, b \in SeededBrains, items \in SeededItems :
       ValidateSeed(p, "seed_icp_rules", b, items)
UpsertSeedStep == \E p \in Procs : UpsertSeed(p)
SeedRaisesStep == \E p \in Procs : SeedRaises(p)

ArchiveSeeded ==
    /\ UNCHANGED calls
    /\ \E b \in SeededBrains : UpdateBrainStatus(b, "archived", "none")

DeleteSeeded ==
    /\ UNCHANGED calls
    /\ \E b \in SeededBrains : DeleteBrain(b, TRUE, "none", {})

NextSeeding ==
    \/ ValidateSeedStep
    \/ UpsertSeedStep
    \/ SeedRaisesStep
    \/ ReturnSteps
    \/ ArchiveSeeded
    \/ DeleteSeeded

SpecSeeding == InitPopulated /\ [][NextSeeding]_vars

(***************************************************************************)
(* Specification of the calls that leave brains in place: concurrent       *)
(* update_brain_status calls, one store access at a time, among seed,      *)
(* add_insight and get_* calls, on the three brains of one vertical.       *)
(***************************************************************************)
EverBrains == {LiveBrain, NewBrain}

BeginEverStep ==
    \E p \in Procs, b \in EverBrains, st \in BrainStatus : BeginUpdate(p, b, st, "none")

\* A call that runs whole between two store accesses of the updates.
EverCall ==
    /\ Idle
    /\ UNCHANGED calls
    /\ \/ Seed("seed_icp_rules", NewBrain, <<ItemA>>, "none")
       \/ AddInsight(NewBrain, "x", "pain_point", "low", LifecycleSource, "none")
       \/ GetBrainStats(NewBrain, "none", {})

NextEver ==
    \/ BeginEverStep
    \/ ScanActiveStep
    \/ ArchiveNextStep
    \/ WriteTargetSteps
    \/ FailSteps
    \/ ReturnSteps
    \/ Return
    \/ EverCall

SpecEver == InitVertical /\ [][NextEver]_vars

(***************************************************************************)
(* Specification of the validation policy of stored insights: add_insight  *)
(* is called with every kind of source, importance and category for one   *)
(* brain, and with an email reply that has a company name and a quote for  *)
(* another.                                                                *)
(***************************************************************************)
\* Every source type, known or not, with and without company name and quote.
PolicySources ==
    {Source(type, company_name, extracted_quote) :
        type \in GateSourceTypes, company_name \in {"", "Acme"},
        extracted_quote \in {"", "quote"}}
PolicyCategories == {"pain_point", "buying_process", "icp_signal"}

PolicyInsightCall ==
    /\ Idle
    /\ UNCHANGED calls
    /\ \E category \in PolicyCategories, importance \in Importance :
          \/ \E source \in PolicySources :
                AddInsight(ActiveBrain, "x", category, importance, source, "none")
          \/ AddInsight(DraftBrain, "x", category, importance,
                        Source("email_reply", "Acme", "quote"), "none")

NextPolicy ==
    \/ Return
    \/ PolicyInsightCall

SpecPolicy == InitPopulated /\ [][NextPolicy]_vars

(***************************************************************************)
(* Properties of the lifecycle                                             *)
(***************************************************************************)
Stored(store, brain_id) == generate_point_id(brain_id, brain_id) \in DOMAIN store

StatusOf(store, brain_id) == store[generate_point_id(brain_id, brain_id)].status

\* The other active brains of a stored brain's vertical.
OtherActive(store, brain_id) ==
    {store[p].id : p \in ActivePoints(store,
                           store[generate_point_id(brain_id, brain_id)].vertical)}
      \ {brain_id}

\* A step in which update_brain_status runs.
UpdateStep == Idle /\ last'.op = "update_brain_status"

\* C1: from the empty store, under any sequence of create_brain,
\* update_brain_status and delete_brain calls run one after the other (backend
\* failures included), every vertical has at most one active brain.
C1_AtMostOneActivePerVertical ==
    \A v \in Verticals : Cardinality(ActivePoints(brains, v)) <= 1

\* An activation has archived the brain that was active: the vertical holds an
\* active and an archived brain.
C1_Witness ==
    \E v \in Verticals, p, q \in DOMAIN brains :
        /\ brains[p].vertical = v /\ brains[q].vertical = v
        /\ brains[p].status = "active" /\ brains[q].status = "archived"
        /\ last.op = "update_brain_status" /\ last.outcome = "ok"
        /\ last.status = "active"

AllowedPairs == {<<"draft", "active">>, <<"active", "archived">>, <<"archived", "active">>}

\* C2: update_brain_status changes the status of the brain only along
\* draft->active, active->archived, archived->active.  For a stored brain and
\* any other pair of statuses (the same status twice, any move to draft) the
\* call fails, with invalid-transition whenever the store answered the read; for
\* a well-formed id that is not stored it fails, with not-found whenever the
\* store answered; a failed call of either kind leaves every brain record as
\* it was.
C2_OnlyValidTransitions ==
    [][UpdateStep /\ validate_brain_id(last'.brain_id) /\ last'.status \in BrainStatus =>
         LET b == last'.brain_id
             new == last'.status
         IN IF Stored(brains, b)
            THEN /\ (Stored(brains', b) /\ StatusOf(brains', b) # StatusOf(brains, b)) =>
                       /\ <<StatusOf(brains, b), new>> \in AllowedPairs
                       /\ StatusOf(brains', b) = new
                 /\ <<StatusOf(brains, b), new>> \notin AllowedPairs =>
                       /\ last'.outcome \in {"invalid_transition", "backend_error"}
                       /\ brains' = brains
            ELSE /\ last'.outcome \in {"not_found", "backend_error"}
                 /\ brains' = brains
    ]_vars

\* A request for the status the brain already has was refused.
C2_Witness ==
    /\ last.op = "update_brain_status"
    /\ last.outcome = "invalid_transition"
    /\ Stored(brains, last.brain_id)
    /\ StatusOf(brains, last.brain_id) = last.status

\* C3: a successful activation of B (draft or archived) while exactly one other
\* brain A of the vertical is active reports deactivated_brain_id = A and leaves
\* A archived and B active; with no other active brain it reports null and
\* changes no other brain.  Such a call is refused by no check (it fails only
\* when a backend call raises).
C3_ActivationArchivesTheActiveBrain ==
    [][UpdateStep /\ last'.status = "active" /\ Stored(brains, last'.brain_id)
       /\ StatusOf(brains, last'.brain_id) \in {"draft", "archived"} =>
         LET b == last'.brain_id
             others == OtherActive(brains, b)
         IN /\ last'.outcome \in {"ok", "backend_error"}
            /\ last'.outcome = "ok" =>
                 /\ StatusOf(brains', b) = "active"
                 /\ \A a \in others : Cardinality(others) = 1 =>
                       /\ last'.deactivated_brain_id = a
                       /\ StatusOf(brains', a) = "archived"
                 /\ others = {} =>
                       /\ last'.deactivated_brain_id = NoId
                       /\ DOMAIN brains' = DOMAIN brains
                       /\ \A p \in DOMAIN brains :
                             brains[p].id # b => brains'[p] = brains[p]
    ]_vars

\* An archived brain was activated again and the active one was archived.
C3_Witness ==
    /\ last.op = "update_brain_status" /\ last.outcome = "ok"
    /\ last.previous_status = "archived"
    /\ last.deactivated_brain_id # NoId
    /\ StatusOf(brains, last.deactivated_brain_id) = "archived"
    /\ StatusOf(brains, last.brain_id) = "active"


(***************************************************************************)
(* Properties of deletion                                                  *)
(***************************************************************************)
\* A step in which delete_brain runs.
DeleteStep == Idle /\ last'.op = "delete_brain"

\* C4: delete_brain removes something only when confirm is true and the brain
\* is stored and not active; a call without confirm, or on an active brain, is
\* rejected and leaves the brain records and the rows of every collection as
\* they were.
C4_DeleteNeedsConfirmAndInactive ==
    [][DeleteStep =>
         LET b == last'.brain_id
         IN /\ (brains' # brains \/ kb' # kb) =>
                 /\ last'.confirm
                 /\ Stored(brains, b)
                 /\ StatusOf(brains, b) # "active"
            /\ (~last'.confirm \/ (Stored(brains, b) /\ StatusOf(brains, b) = "active")) =>
                 /\ last'.outcome \notin {"ok", "none"}
                 /\ brains' = brains
                 /\ kb' = kb
    ]_vars

\* A confirmed delete of the active brain, which holds rows, was refused.
C4_Witness ==
    /\ last.op = "delete_brain" /\ last.confirm
    /\ last.outcome = "active_brain"
    /\ StatusOf(brains, last.brain_id) = "active"
    /\ HoldingRows(kb, last.brain_id) # {}

\* C5: after a successful delete_brain(brain_id, confirm=true) no collection
\* holds a row of the brain, the brain record is gone, and the count returned
\* for each collection is the number of rows it held for the brain.
C5_CascadeRemovesEverything ==
    [][DeleteStep /\ last'.outcome = "ok" =>
         LET b == last'.brain_id
         IN /\ \A c \in Collections : RowsOf(kb'[c], b) = {}
            /\ ~Stored(brains', b)
            /\ \A c \in Collections :
                  last'.deleted_content[c] = Cardinality(RowsOf(kb[c], b))
    ]_vars

\* C6: a failed delete_brain or update_brain_status leaves the store as it was.
C6_FailureLeavesStoreUnchanged ==
    [][(DeleteStep \/ UpdateStep) /\ last'.outcome # "ok" =>
         brains' = brains /\ kb' = kb
    ]_vars


(***************************************************************************)
(* Properties of seeding                                                   *)
(***************************************************************************)
\* A step in which a seed tool runs.
SeedStep == Idle /\ last'.op = "seed"

\* The target of the call is a stored brain that is draft or active.
SeedableTarget(brain_id) ==
    Stored(brains, brain_id) /\ StatusOf(brains, brain_id) \in {"draft", "active"}

\* The outcomes that refuse the target brain.
BrainRefusals == {"invalid_input", "not_found", "not_seedable"}

\* C8 (as claimed): a seed call whose target brain is archived or not stored
\* fails and writes nothing, whatever the items list, the empty list included.
C8_UnseedableAlwaysFails ==
    [][SeedStep /\ ~SeedableTarget(last'.brain_id) =>
         last'.outcome # "ok" /\ kb' = kb
    ]_vars

\* C8 (amended): a seed call with a non-empty items list whose target brain is
\* archived or not stored fails and writes nothing; a call with an empty list
\* returns seeded_count 0 without an error, whatever the brain, and writes
\* nothing; a call to a draft or active brain is not refused for its brain.
C8_UnseedableFailsUnlessEmpty ==
    [][SeedStep =>
         /\ (last'.items # <<>> /\ ~SeedableTarget(last'.brain_id)) =>
               /\ last'.outcome \in BrainRefusals \cup {"backend_error"}
               /\ kb' = kb
               /\ brains' = brains
         /\ last'.items = <<>> =>
               /\ last'.outcome = "ok"
               /\ last'.seeded_count = 0
               /\ last'.errors = <<>>
               /\ kb' = kb
         /\ SeedableTarget(last'.brain_id) => last'.outcome \notin BrainRefusals
    ]_vars

\* A non-empty batch for the archived brain was refused.
C8_Witness ==
    /\ last.op = "seed" /\ last.items # <<>>
    /\ Stored(brains, last.brain_id)
    /\ StatusOf(brains, last.brain_id) = "archived"
    /\ last.outcome = "not_seedable"

\* The field is not there, or is the empty string.
LacksField(x) == x.t = "none" \/ x.v = ""

\* The item lacks its embed field or its key field.
InvalidItem(tool, item) == LacksField(EmbedOf(tool, item)) \/ LacksField(KeyOf(tool, item))

InvalidIndices(tool, items) ==
    {i - 1 : i \in {j \in 1..Len(items) : InvalidItem(tool, items[j])}}

\* The key value of a stored record of a collection.
KeyValue(collection, payload) ==
    IF collection = "objection_handlers" THEN payload.embed ELSE payload.key

C10_OneRecordPerBrainAndKey ==
    \A tool \in DOMAIN SeedTools :
       LET c == SeedTools[tool].collection
       IN \A p, q \in DOMAIN kb[c] :
             (/\ kb[c][p].payload.brain_id = kb[c][q].payload.brain_id
              /\ KeyValue(c, kb[c][p].payload) = KeyValue(c, kb[c][q].payload))
             => p = q


(***************************************************************************)
(* Properties of the reads                                                 *)
(***************************************************************************)
\* The points of a collection whose stored brain_id is the given one, and the
\* collection cut down to them.
Own(coll, brain_id) == {p \in DOMAIN coll : coll[p].payload.brain_id = brain_id}
OwnPart(coll, brain_id) == [p \in Own(coll, brain_id) |-> coll[p]]

\* The collection a search tool reads and its score threshold.
SearchOps ==
    [query_icp_rules |-> [collection |-> "icp_rules", threshold |-> 0],
     search_market_research |-> [collection |-> "market_research", threshold |-> 0],
     find_objection_handler |->
        [collection |-> "objection_handlers",
         threshold |-> OBJECTION_CONFIDENCE_THRESHOLD]]

\* C7: every read that takes a brain_id returns or counts only records whose
\* stored brain_id is the requested one, and its result is a result of the
\* same read on the store without the records of the other brains.
C7_ReadsSeeOnlyTheirBrain ==
    LET b == last.brain_id
    IN /\ (last.op \in DOMAIN SearchOps /\ last.outcome = "ok") =>
            LET coll == kb[SearchOps[last.op].collection]
            IN /\ last.hits \subseteq Own(coll, b)
               /\ last.hits \in QueryPoints(OwnPart(coll, b), last.query, b,
                                            last.category, last.limit,
                                            SearchOps[last.op].threshold)
       /\ (last.op = "get_response_template" /\ last.outcome = "ok") =>
            LET coll == kb["response_templates"]
            IN /\ last.hits \subseteq Own(coll, b)
               /\ last.hits \in Limited(Matching(OwnPart(coll, b), b, last.category),
                                        last.limit)
       /\ (last.op = "get_brain_stats" /\ last.outcome = "ok") =>
            \A c \in Collections :
               last.stats[c] \in {0, Cardinality(Own(kb[c], b))}
       /\ (last.op = "add_insight" /\ last.insight_status = "duplicate") =>
            /\ last.existing_id \in Own(kb["insights"], b)
            /\ Score(last.query, kb["insights"][last.existing_id].vector)
                  >= DUPLICATE_SIMILARITY_THRESHOLD
       /\ (last.op = "add_insight" /\ last.insight_status = "created") =>
            \A p \in Own(kb["insights"], b) \ {last.insight_id} :
               Score(last.query, kb["insights"][p].vector)
                  < DUPLICATE_SIMILARITY_THRESHOLD

\* A search of one brain returned its record while another brain holds a
\* record in the same collection that matches the query as well.
C7_Witness ==
    /\ last.op = "query_icp_rules" /\ last.outcome = "ok"
    /\ last.hits # {}
    /\ \E p \in DOMAIN kb["icp_rules"] :
          /\ kb["icp_rules"][p].payload.brain_id # last.brain_id
          /\ Score(last.query, kb["icp_rules"][p].vector) = 100


(***************************************************************************)
(* Properties of add_insight and the quality gate                          *)
(***************************************************************************)
\* A step in which add_insight runs, and one in which its quality gate runs
\* (the arguments were accepted).
InsightStep == Idle /\ last'.op = "add_insight"
GateStep == InsightStep /\ last'.outcome # "invalid_input"

\* C11: when the computed confidence is below 0.70 the gate rejects (not a
\* duplicate, nothing stored) and the duplicate check is not invoked; the
\* duplicate check is invoked only with a confidence of at least 0.70.
C11_LowConfidenceSkipsDuplicateCheck ==
    [][GateStep =>
         /\ last'.confidence < 70 =>
               /\ last'.outcome = "ok"
               /\ last'.insight_status = "rejected"
               /\ ~last'.duplicate_checked
               /\ last'.existing_id = NoId
               /\ kb' = kb
         /\ last'.duplicate_checked => last'.confidence >= 70
    ]_vars

\* A source of confidence 0.65 was rejected while the brain holds an insight
\* of the same content: the duplicate check would have found it.
C11_Witness ==
    /\ last.op = "add_insight" /\ last.insight_status = "rejected"
    /\ last.confidence = 65
    /\ \E p \in DOMAIN kb["insights"] :
          /\ kb["insights"][p].payload.brain_id = last.brain_id
          /\ kb["insights"][p].payload.content = last.query

\* The insights of the brain that are near duplicates of the content.
SimilarOwn(store, brain_id, content) ==
    {p \in DOMAIN store["insights"] :
        /\ store["insights"][p].payload.brain_id = brain_id
        /\ Score(content, store["insights"][p].vector) >= 85}

\* C12: an add_insight call that passes the confidence floor and returns is a
\* duplicate, with the id of the stored insight, when the brain already holds
\* an insight of identical content; and it creates the insight when the brain
\* holds no similar insight, whatever the other brains hold.
C12_SecondSubmissionIsDuplicate ==
    [][(GateStep /\ last'.outcome = "ok" /\ last'.confidence >= 70) =>
         LET b == last'.brain_id
             c == last'.query
             same == {p \in DOMAIN kb["insights"] :
                         /\ kb["insights"][p].payload.brain_id = b
                         /\ kb["insights"][p].payload.content = c}
         IN /\ same # {} =>
                 /\ last'.insight_status = "duplicate"
                 /\ last'.existing_id \in same
            /\ SimilarOwn(kb, b, c) = {} =>
                 /\ last'.insight_status = "created"
                 /\ last'.insight_id \notin DOMAIN kb["insights"]
                 /\ last'.insight_id \in DOMAIN kb'["insights"]
                 /\ kb'["insights"][last'.insight_id].payload.brain_id = b
                 /\ kb'["insights"][last'.insight_id].payload.content = c
    ]_vars

\* A content was created in one brain, created again in the other brain, and
\* submitted again to the first: a duplicate of the first insight.
C12_Witness ==
    /\ last.op = "add_insight" /\ last.insight_status = "duplicate"
    /\ kb["insights"][last.existing_id].payload.content = last.query
    /\ kb["insights"][last.existing_id].payload.brain_id = last.brain_id
    /\ \E p \in DOMAIN kb["insights"] :
          /\ kb["insights"][p].payload.brain_id # last.brain_id
          /\ kb["insights"][p].payload.content = last.query

\* The validation policy: high importance, a strategic category, or a
\* confidence below 0.80.
NeedsReview(importance, category, confidence) ==
    \/ importance = "high"
    \/ category \in {"buying_process", "icp_signal"}
    \/ confidence < 80

\* C13 (the stored insights): every stored insight has a confidence of at
\* least 0.70, validation status pending, and needs_validation as the policy
\* gives it for its importance, category and confidence.
StoredInsightsPassedTheGate ==
    \A p \in DOMAIN kb["insights"] :
       LET payload == kb["insights"][p].payload
       IN /\ payload.confidence >= 70
          /\ payload.validation.status = "pending"
          /\ payload.validation.needs_validation =
                NeedsReview(payload.importance, payload.category, payload.confidence)

\* C13: add_insight writes only when the gate passed: a call that does not
\* report created leaves the store as it was, a call that reports created
\* adds that one insight to the insights collection, and every stored insight
\* has a confidence of at least 0.70, validation status pending and
\* needs_validation as the policy gives it.
C13_OnlyPassedInsightsAreStored ==
    [][InsightStep =>
         /\ last'.insight_status # "created" => (kb' = kb /\ brains' = brains)
         /\ last'.insight_status = "created" =>
               /\ last'.confidence >= 70
               /\ last'.insight_id \notin DOMAIN kb["insights"]
               /\ kb' = [kb EXCEPT !["insights"] =
                            [p \in DOMAIN kb["insights"] \cup {last'.insight_id} |->
                                kb'["insights"][p]]]
               /\ \A p \in DOMAIN kb["insights"] :
                     kb'["insights"][p] = kb["insights"][p]
               /\ kb'["insights"][last'.insight_id].payload.confidence
                     = last'.confidence
         /\ StoredInsightsPassedTheGate'
    ]_vars

\* Two insights are stored; the last one, of confidence 0.70, needs
\* validation.
C13_Witness ==
    /\ last.op = "add_insight" /\ last.insight_status = "created"
    /\ last.confidence = 70
    /\ kb["insights"][last.insight_id].payload.validation.needs_validation
    /\ Cardinality(DOMAIN kb["insights"]) = 2

\* C14: should_require_validation is true exactly when importance is high,
\* or the category is buying_process or icp_signal, or confidence < 0.80.
C14_ValidationPolicy ==
    last.op = "should_require_validation" =>
       last.needs_validation =
          (\/ last.importance = "high"
           \/ last.category = "buying_process"
           \/ last.category = "icp_signal"
           \/ last.confidence < 80)

\* Confidence exactly 0.80, importance not high, category not strategic: no
\* validation.
C14_Witness ==
    /\ last.op = "should_require_validation"
    /\ last.confidence = 80 /\ last.importance = "medium"
    /\ last.category = "pain_point"
    /\ ~last.needs_validation

\* The bonus of a source type, in hundredths.
TypeBonus(type) ==
    IF type = "call_transcript" THEN 20
    ELSE IF type = "email_reply" THEN 10
    ELSE IF type = "linkedin_message" THEN 5
    ELSE 0

\* C15: calculate_confidence is 0.50 plus the bonus of the source type plus
\* 0.10 for a non-empty quote plus 0.10 for a non-empty company name, whatever
\* the content; it lies in [0.50, 0.90], and is 0.90 only for a
\* call_transcript with both fields.
C15_ConfidenceFormula ==
    last.op = "calculate_confidence" =>
       /\ last.confidence =
             50 + TypeBonus(last.source.type)
                + (IF last.source.extracted_quote # "" THEN 10 ELSE 0)
                + (IF last.source.company_name # "" THEN 10 ELSE 0)
       /\ last.confidence >= 50 /\ last.confidence <= 90
       /\ last.confidence = 90 =>
             /\ last.source.type = "call_transcript"
             /\ last.source.extracted_quote # ""
             /\ last.source.company_name # ""

\* The maximum: a call transcript with a quote and a company name.
C15_Witness ==
    /\ last.op = "calculate_confidence"
    /\ last.confidence = 90
    /\ last.source.type = "call_transcript"


(***************************************************************************)
(* Properties of creation                                                  *)
(***************************************************************************)
\* update_brain_status(brain_id, status) succeeds and leaves the brain in
\* that status.
Transition(brain_id, status) ==
    /\ UpdateBrainStatus(brain_id, status, "none")
    /\ last'.outcome = "ok"
    /\ StatusOf(brains', brain_id) = status

\* C17: a brain that create_brain has just stored is draft, and no status is
\* terminal: a draft or archived brain can be activated by one
\* update_brain_status call, and an active brain can be archived (from where
\* it can be activated again).
C17_DraftFirstAndNoTerminalStatus ==
    /\ (last.op = "create_brain" /\ last.outcome = "ok") =>
          /\ Stored(brains, last.brain_id)
          /\ StatusOf(brains, last.brain_id) = "draft"
    /\ \A p \in DOMAIN brains :
          /\ brains[p].status \in {"draft", "archived"} =>
                ENABLED Transition(brains[p].id, "active")
          /\ brains[p].status = "active" =>
                ENABLED Transition(brains[p].id, "archived")

\* An archived brain was reactivated while a draft brain is stored.
C17_Witness ==
    /\ last.op = "update_brain_status" /\ last.outcome = "ok"
    /\ last.previous_status = "archived" /\ last.status = "active"
    /\ \E p \in DOMAIN brains : brains[p].status = "draft"

\* A step in which create_brain runs.
CreateStep == Idle /\ last'.op = "create_brain"

\* C18: a successful create_brain adds a record whose id no stored brain has,
\* and leaves every stored brain record as it was.
C18_CreateAddsAFreshBrain ==
    [][(CreateStep /\ last'.outcome = "ok") =>
         /\ ~Stored(brains, last'.brain_id)
         /\ Stored(brains', last'.brain_id)
         /\ \A p \in DOMAIN brains : p \in DOMAIN brains' /\ brains'[p] = brains[p]
    ]_vars

(***************************************************************************)
(* Properties of update_brain_status, one store access at a time.          *)
(***************************************************************************)
\* The ids the result of a call names as deactivated: its one field
\* deactivated_brain_id, when set.
Deactivated(call) == {call.deactivated_brain_id} \ {NoId}

Activated(call) ==
    /\ call.pc = "done"
    /\ call.outcome = "ok"
    /\ call.status = "active"

\* C16: if two or more other brains of the target's vertical are active when
\* a brain is activated, every one of them ends with status archived and the
\* id of every one of them is recorded as deactivated in the call's result.
C16_EveryArchivedBrainIsReported ==
    \A p \in Procs :
       (Activated(calls[p]) /\ Cardinality(OthersFound(calls[p])) >= 2) =>
          /\ \A point \in OthersFound(calls[p]) :
                StatusOf(brains, point.id) = "archived"
          /\ {point.id : point \in OthersFound(calls[p])} \subseteq Deactivated(calls[p])

\* Both calls activate, for two different brains of one vertical, and each
\* scanned before the other wrote.  p is about to write its target, q has
\* written its own.
SecondWrite(p, q) ==
    /\ p # q
    /\ calls[p].pc = "write"
    /\ calls[p].status = "active"
    /\ Activated(calls[q])
    /\ calls[p].brain_id # calls[q].brain_id
    /\ calls[p].brain_data.vertical = calls[q].brain_data.vertical
    /\ q \in calls[p].peers
    /\ p \in calls[q].peers
    /\ WriteTargetStep(p)

BothActivated(p, q) ==
    /\ Activated(calls'[p])
    /\ Deactivated(calls'[p]) = {}
    /\ Deactivated(calls'[q]) = {}
    /\ StatusOf(brains', calls[p].brain_id) = "active"
    /\ StatusOf(brains', calls[q].brain_id) = "active"

C20_ArchiveBeforeActivate ==
    (calls[1].pc # "idle" /\ calls[1].status = "active" /\ Stored(brains, calls[1].brain_id)) =>
       ~ /\ StatusOf(brains, calls[1].brain_id) = "active"
         /\ \E point \in OthersFound(calls[1]) : StatusOf(brains, point.id) = "active"

C20_Witness ==
    /\ calls[1].pc = "write"
    /\ calls[1].status = "active"
    /\ Cardinality(OthersFound(calls[1])) = 2
    /\ StatusOf(brains, calls[1].brain_id) # "active"
    /\ \A point \in OthersFound(calls[1]) : StatusOf(brains, point.id) = "archived"

(***************************************************************************)
(* Isolation of the seeded content                                         *)
(***************************************************************************)
\* The points of a collection that a step has added or changed.
Written(before, after) ==
    {p \in DOMAIN after : p \notin DOMAIN before \/ after[p] # before[p]}

\* C21: every record stored by a seed call made with brain_id = X has stored
\* brain_id = X, whatever fields its items carry, so the call neither adds nor
\* changes a record visible to the queries on another brain.
C21_SeedWritesOnlyItsBrain ==
    [][SeedStep =>
         \A c \in Collections :
            /\ \A p \in Written(kb[c], kb'[c]) :
                  kb'[c][p].payload.brain_id = last'.brain_id
            /\ \A b \in BrainIdArgs \ {last'.brain_id} :
                  OwnPart(kb'[c], b) = OwnPart(kb[c], b)
    ]_vars

(***************************************************************************)
(* Validation before the backend                                           *)
(***************************************************************************)
\* The call raised a validation error, reached no backend and wrote nothing.
RefusedLocally ==
    /\ last'.outcome \in {"invalid_input", "confirm_required"}
    /\ ~last'.network
    /\ brains' = brains
    /\ kb' = kb

InvalidSource(source) == source = NoSource \/ source.type = "" \/ source.id = ""

\* C22: add_insight, update_brain_status, delete_brain and the seed tools with
\* a non-empty items list raise the error of an invalid parameter (malformed
\* brain_id, unknown status, category or importance, content too short or too
\* long, missing source, source type or source id, confirm not true) before
\* any call of the vector store or of the embedding provider.
C22_ValidationBeforeBackend ==
    [][/\ \A b \in ValidationBrains, content \in ValidationContents,
             category \in ValidationCategories, importance \in ValidationImportances,
             source \in ValidationSources, f \in InsightFaults :
             (/\ Idle
              /\ last'.op = "add_insight"
              /\ last'.brain_id = b /\ last'.query = content /\ last'.category = category
              /\ \/ b = MalformedId
                 \/ content \in {"tiny", "long"}
                 \/ category = "nonsense"
                 \/ importance = "urgent"
                 \/ InvalidSource(source)
              /\ AddInsight(b, content, category, importance, source, f))
                => RefusedLocally
       /\ \A b \in PopulatedArgs, st \in ValidationStatuses, f \in UpdateFaults :
             (/\ Idle
              /\ last'.op = "update_brain_status"
              /\ last'.brain_id = b /\ last'.status = st
              /\ b = MalformedId \/ st \notin {"draft", "active", "archived"}
              /\ UpdateBrainStatus(b, st, f)) => RefusedLocally
       /\ \A b \in PopulatedArgs, c \in BOOLEAN, f \in DeleteFaults,
             failing \in SUBSET Collections :
             (/\ Idle
              /\ last'.op = "delete_brain"
              /\ last'.brain_id = b /\ last'.confirm = c
              /\ b = MalformedId \/ ~c
              /\ DeleteBrain(b, c, f, failing)) => RefusedLocally
       /\ \A b \in ValidationBrains, items \in ValidationItems, f \in SeedFaults :
             (/\ Idle
              /\ last'.op = "seed"
              /\ last'.brain_id = b /\ last'.items = items
              /\ items # <<>>
              /\ b = MalformedId
              /\ Seed("seed_icp_rules", b, items, f)) => RefusedLocally
    ]_vars

C22_Witness ==
    /\ last.op = "add_insight"
    /\ last.brain_id = ActiveBrain
    /\ last.query = LongContent
    /\ last.outcome = "invalid_input"
    /\ ~last.network

(***************************************************************************)
(* Properties of the embedding calls                                       *)
(***************************************************************************)
EmbedFailed == last.op = "embed" /\ last.outcome \notin {"pending", "ok"}

\* C23: an embedding call that receives 429 is retried up to 6 attempts in
\* total and only then fails, as a backend-unavailable error; another failure
\* is not retried; the call ends after at most 6 attempts.
C23_RateLimitRetriedThenUnavailable ==
    last.op = "embed" =>
       /\ last.attempts <= 6
       /\ \A i \in 1..Len(last.responses) :
             i < Len(last.responses) => last.responses[i] = "429"
       /\ (EmbedFailed /\ last.responses[Len(last.responses)] = "429") =>
             /\ last.attempts = 6
             /\ last.outcome = "backend_unavailable"

(***************************************************************************)
(* Frame of the calls on brain records                                     *)
(***************************************************************************)
\* C24: update_brain_status changes no vertical, id or name, changes no
\* status in a vertical other than the target's, and on a transition other
\* than an activation changes no brain but the target; seed, add_insight and
\* get_* calls change no brain record.
C24_BrainRecordsFrame ==
    [][/\ UpdateStep =>
            /\ DOMAIN brains' = DOMAIN brains
            /\ \A p \in DOMAIN brains :
                  /\ brains'[p].id = brains[p].id
                  /\ brains'[p].name = brains[p].name
                  /\ brains'[p].vertical = brains[p].vertical
                  /\ brains'[p].status # brains[p].status =>
                        /\ Stored(brains, last'.brain_id)
                        /\ brains[p].vertical =
                              brains[generate_point_id(last'.brain_id, last'.brain_id)].vertical
                        /\ last'.status # "active" => brains[p].id = last'.brain_id
       /\ (Idle /\ last'.op \in {"seed", "add_insight", "get_response_template",
                                "get_brain_stats"}) => brains' = brains
    ]_vars

C24_Witness ==
    /\ last.op = "update_brain_status"
    /\ last.outcome = "ok"
    /\ last.status = "active"
    /\ last.deactivated_brain_id # NoId
    /\ \E p \in DOMAIN brains :
          /\ brains[p].vertical # brains[generate_point_id(last.brain_id, last.brain_id)].vertical
          /\ brains[p].status = "active"

(***************************************************************************)
(* Properties of concurrent add_insight calls                              *)
(***************************************************************************)
\* Two stored insights of one brain that are near duplicates.
SimilarPair(p, q) ==
    /\ p # q
    /\ kb["insights"][p].payload.brain_id = kb["insights"][q].payload.brain_id
    /\ Score(kb["insights"][p].vector, kb["insights"][q].vector) >= 85

\* C25 (as claimed): under any interleaving of add_insight calls a brain never
\* holds two stored insights of similarity 0.85 or higher.
C25_NoSimilarInsights ==
    \A p, q \in DOMAIN kb["insights"] : ~SimilarPair(p, q)

\* C25 (amended): an insight that add_insight stores is similar to no insight
\* that the brain held when the call searched it; a similar insight stored
\* between the search and the storing is not seen, and both calls create.
C25_NoSimilarInsightSeen ==
    [][\A p \in Procs :
          (calls[p].pc = "store" /\ StoreInsight(p)) =>
             \A q \in calls[p].seen :
                q \in DOMAIN kb["insights"] =>
                   Score(calls[p].content, kb["insights"][q].vector) < 85
    ]_vars

C25_Witness ==
    \E p \in Procs :
       /\ calls[p].pc = "done"
       /\ calls[p].insight_status = "created"
       /\ calls[p].seen # {}
       /\ calls[p].seen \subseteq DOMAIN kb["insights"]
       /\ calls[p].insight_id \in DOMAIN kb["insights"] \ calls[p].seen

(***************************************************************************)
(* Properties of delete_brain among concurrent update_brain_status calls   *)
(***************************************************************************)
\* C26 (as claimed): after delete_brain has returned successfully for a brain
\* (and no create_brain since: the specification has none), no brain record of
\* that id exists, whatever update_brain_status calls in progress write.
C26_DeletedBrainStaysDeleted ==
    (last.op = "delete_brain" /\ last.outcome = "ok") => ~Stored(brains, last.brain_id)

\* The write of call p puts back the record of brain b that the call read.
StaleWrite(p, b) ==
    LET record == brains'[generate_point_id(b, b)]
    IN \/ /\ calls[p].pc = "write"
          /\ calls[p].brain_id = b
          /\ record = [calls[p].brain_data EXCEPT !.status = calls[p].status]
       \/ /\ calls[p].pc = "archive"
          /\ \E point \in OthersFound(calls[p]) \ calls[p].visited :
                point.id = b /\ record = [point EXCEPT !.status = "archived"]

\* C26 (amended): a brain record that is not stored is stored again only by a
\* write of an update_brain_status call that read it before it was deleted:
\* the copy that call read, with the status the call writes.
C26_DeletedBrainReturnsByStaleWrite ==
    [][\A b \in StaleArgs :
          (~Stored(brains, b) /\ Stored(brains', b)) => \E p \in Procs : StaleWrite(p, b)
    ]_vars

C26_Witness ==
    /\ last.op = "delete_brain"
    /\ last.outcome = "ok"
    /\ Stored(brains, last.brain_id)
    /\ \E p \in Procs : calls[p].pc = "done" /\ calls[p].outcome = "ok"

(***************************************************************************)
(* Properties of seed calls among update_brain_status and delete_brain     *)
(***************************************************************************)
\* C27 (as claimed): when a seed call writes its rows, the brain is stored and
\* is not archived.
C27_SeedWritesForSeedableBrain ==
    [][\A p \in Procs :
          (calls[p].pc = "upsert" /\ UpsertSeed(p)) =>
             /\ Stored(brains, calls[p].brain_id)
             /\ StatusOf(brains, calls[p].brain_id) # "archived"
    ]_vars

\* C27 (amended): when a seed call writes its rows, the brain was stored and
\* not archived at the call's own read of it; what update_brain_status and
\* delete_brain did to the brain since is not looked at.
C27_SeedWritesForBrainSeedableAtRead ==
    [][\A p \in Procs :
          (calls[p].pc = "upsert" /\ UpsertSeed(p)) =>
             calls[p].status_read \in {"draft", "active"}
    ]_vars

\* A seed call has written rows of a brain that is no longer stored.
C27_Witness ==
    \E p \in Procs :
       /\ calls[p].pc = "done"
       /\ calls[p].op = "seed"
       /\ calls[p].seeded_count > 0
       /\ ~Stored(brains, calls[p].brain_id)
       /\ HoldingRows(kb, calls[p].brain_id) # {}

(***************************************************************************)
(* Properties of the brain an insight is stored for                        *)
(***************************************************************************)
\* C28: add_insight stores an insight only for a brain that is stored in the
\* brains collection and is not archived.
C28_InsightOnlyForLiveBrain ==
    [][(last'.op = "add_insight" /\ last'.insight_status = "created") =>
          /\ Stored(brains, last'.brain_id)
          /\ StatusOf(brains, last'.brain_id) # "archived"
    ]_vars

(***************************************************************************)
(* Properties of the statuses a brain goes through                         *)
(***************************************************************************)
\* C29: a stored brain whose status is active or archived is not draft after
\* any step of update_brain_status, seed, add_insight or a get_* tool, the
\* archival of the active brains of a vertical included.
C29_NeverDraftAgain ==
    [][\A p \in DOMAIN brains :
          (brains[p].status \in {"active", "archived"} /\ p \in DOMAIN brains') =>
             brains'[p].status \in {"active", "archived"}
    ]_vars

\* Two calls have written the brain that was draft, one of them after the
\* other had activated it.
C29_Witness ==
    /\ StatusOf(brains, NewBrain) # "draft"
    /\ StatusOf(brains, LiveBrain) = "archived"
    /\ \A p \in Procs :
          /\ calls[p].pc = "done"
          /\ calls[p].outcome = "ok"
          /\ calls[p].brain_id = NewBrain
          /\ calls[p].previous_status = "draft"
          /\ calls[p].deactivated_brain_id = LiveBrain

(***************************************************************************)
(* Properties of the validation flag of stored insights                    *)
(***************************************************************************)
\* The source lets an insight go without validation: a call transcript with
\* a quote or a company name, or an email reply with both.
TrustedSource(source) ==
    \/ /\ source.type = "call_transcript"
       /\ source.extracted_quote # "" \/ source.company_name # ""
    \/ /\ source.type = "email_reply"
       /\ source.extracted_quote # ""
       /\ source.company_name # ""

\* C30: a stored insight from a manual_entry, linkedin_message or unlisted
\* source type has confidence at most 0.75 and needs_validation = true;
\* needs_validation = false is stored only for a call_transcript with a quote
\* or a company name or an email_reply with both, importance other than high
\* and a category other than buying_process and icp_signal.
C30_StoredValidationFlag ==
    \A q \in DOMAIN kb["insights"] :
       LET payload == kb["insights"][q].payload
       IN /\ payload.source.type \notin {"call_transcript", "email_reply"} =>
                /\ payload.confidence <= 75
                /\ payload.validation.needs_validation
          /\ ~payload.validation.needs_validation =>
                /\ TrustedSource(payload.source)
                /\ payload.importance # "high"
                /\ payload.category \notin {"buying_process", "icp_signal"}

\* One brain holds an insight from a linkedin message of confidence 0.75, the
\* other one from an email reply that needs no validation.
C30_Witness ==
    \E q, r \in DOMAIN kb["insights"] :
       /\ kb["insights"][q].payload.source.type = "linkedin_message"
       /\ kb["insights"][q].payload.confidence = 75
       /\ kb["insights"][q].payload.validation.needs_validation
       /\ kb["insights"][r].payload.source.type = "email_reply"
       /\ ~kb["insights"][r].payload.validation.needs_validation

====
